---- MODULE Spec2Model ----
(***************************************************************************)
(* A model of pixi-bot's inline command interpreter, its completion        *)
(* stream, its tool-call accumulator, its transcript persistence and       *)
(* truncation, and its per-channel generation tasks.                       *)
(*                                                                         *)
(* Text is a sequence of one-character strings, so that slicing, strip(),  *)
(* lower(), index() and endswith() are computed as Python computes them.   *)
(***************************************************************************)
EXTENDS Integers, Sequences, FiniteSets, TLC

VARIABLES
    \* ---- AsyncCommandManager.stream_commands (src/pixi/commands.py) ----
    stream,          \* the items of the iterator handed to stream_commands, not yet consumed
    interp,          \* the pass's locals: inside_command, command_str, what it yielded, called, raised
    \* ---- AsyncChatClient.stream_request / stream_completion (src/pixi/chatting.py) ----
    upstream,        \* content deltas (chunks) the completion API has still to deliver
    pending_chars,   \* characters of the current delta stream_request has still to yield
    think,           \* stream_completion's locals: lookbehind_buffer, is_thinking, yielded, ended
    \* ---- AsyncChatClient.stream_request: tool calls (src/pixi/chatting.py) ----
    events,          \* the tool-call fragments and content deltas the API has still to deliver
    partial_function_calls,   \* dict index -> PartialFunctionCall, in insertion order
    last_function_call_index, \* -1 for None
    tool_call_queue, \* calls handed to CoroutineQueueExecutor and not yet executed
    queued_calls,    \* every call handed to add_to_queue, with the number of events consumed then
    messages,        \* self.messages, the transcript
    req,             \* the request's position: pc, events consumed, response, finish_reason
    \* ---- AsyncChatbotInstance.save / load (src/pixi/chatbot.py) ----
    instance,        \* the live instance: client.messages, realtime_data, is_notes_visible
    storage,         \* the save file: <<>> when absent, else <<its JSON object>>
    loaded,          \* <<>> or <<what a fresh instance holds after load()>>
    rebuilt,         \* <<>> or <<what from_dict made of the instance's to_dict()>>
    construction,    \* <<>> or <<the last ChatMessage(...) call: its arguments and outcome>>
    \* ---- AsyncChatClient.enforce_approximate_context_limit (src/pixi/chatting.py) ----
    context,         \* the transcript by sizes, len(system_prompt), and <<>> or <<the result>>
    \* ---- PixiClient.pixi_resp_retry / pixi_resp and                                ----
    \* ---- AsyncChatbotInstance.concurrent_channel_stream_call (one channel)         ----
    lists,           \* the list objects that have been client.messages or a checkpoint
    messages_ref,    \* which of them client.messages names now
    tasks,           \* the asyncio tasks created for stream_call_task, in creation order
    channel_active_tasks,  \* self.channel_active_tasks: per channel, indices into tasks
    handlers,        \* per inbound message: where its pixi_resp_retry call stands
    effects,         \* the commands dispatched so far (messages sent, reactions added)
    \* ---- CachedAsyncChatbotFactory.get / get_or_create (src/pixi/chatbot.py) ----
    factory,         \* self.instances, the instances constructed, the save files, the calls
    given            \* the input of the pass as given (fixed by Init): the content deltas as the
                     \* API splits them, or the one text whose iterator is interpreted

vars == <<stream, interp, upstream, pending_chars, think,
          events, partial_function_calls, last_function_call_index, tool_call_queue,
          queued_calls, messages, req, instance, storage, loaded, rebuilt,
          construction, context,
          lists, messages_ref, tasks, channel_active_tasks, handlers, effects, factory,
          given>>

\* the variables of each modelled component
interpVars == <<stream, interp>>
streamVars == <<upstream, pending_chars, think>>
toolVars   == <<events, partial_function_calls, last_function_call_index, tool_call_queue,
                queued_calls, messages, req>>

persistVars == <<instance, storage, loaded, rebuilt, construction>>
channelVars == <<lists, messages_ref, tasks, channel_active_tasks, handlers, effects>>

\* what the actions of one component leave alone
outsidePipeline == <<toolVars, persistVars, context, channelVars, factory>>
outsideTools    == <<interpVars, streamVars, persistVars, context, channelVars, factory, given>>
outsidePersist  == <<interpVars, streamVars, toolVars, context, channelVars, factory, given>>
outsideContext  == <<interpVars, streamVars, toolVars, persistVars, channelVars, factory, given>>
outsideChannel  == <<interpVars, streamVars, toolVars, instance, loaded, rebuilt, construction,
                     context, factory, given>>
outsideFactory  == <<interpVars, streamVars, toolVars, persistVars, context, channelVars, given>>

(***************************************************************************)
(* Python string helpers                                                   *)
(***************************************************************************)

\* Python's None where a string is expected (no text is a sequence of this shape).
None == <<"None">>

UpperLetters == <<"A","B","C","D","E","F","G","H","I","J","K","L","M",
                  "N","O","P","Q","R","S","T","U","V","W","X","Y","Z">>

LowerLetters == <<"a","b","c","d","e","f","g","h","i","j","k","l","m",
                  "n","o","p","q","r","s","t","u","v","w","x","y","z">>

\* str.lower() of one character
LowerChar(c) ==
    IF \E i \in 1..26 : UpperLetters[i] = c
    THEN LowerLetters[CHOOSE i \in 1..26 : UpperLetters[i] = c]
    ELSE c

\* str.lower()
Lower(s) == [i \in 1..Len(s) |-> LowerChar(s[i])]

\* the characters str.strip() removes
Whitespace == {" ", "\n", "\t"}

RECURSIVE LStrip(_)
LStrip(s) == IF s # <<>> /\ Head(s) \in Whitespace THEN LStrip(Tail(s)) ELSE s

RECURSIVE RStrip(_)
RStrip(s) ==
    IF s # <<>> /\ s[Len(s)] \in Whitespace THEN RStrip(SubSeq(s, 1, Len(s) - 1)) ELSE s

\* str.strip()
Strip(s) == RStrip(LStrip(s))

\* c in s
Contains(s, c) == \E i \in 1..Len(s) : s[i] = c

\* s.index(c), 0-based; -1 stands for the ValueError Python raises when c is absent
IndexOf(s, c) ==
    IF Contains(s, c)
    THEN (CHOOSE i \in 1..Len(s) : s[i] = c /\ \A j \in 1..(i - 1) : s[j] # c) - 1
    ELSE -1

\* s[1:-1]
SliceInner(s) == SubSeq(s, 2, Len(s) - 1)

\* s.endswith(t)
EndsWith(s, t) ==
    Len(s) >= Len(t) /\ SubSeq(s, Len(s) - Len(t) + 1, Len(s)) = t

RECURSIVE Concat(_)
\* "".join(parts)
Concat(parts) == IF parts = <<>> THEN <<>> ELSE Head(parts) \o Concat(Tail(parts))

(***************************************************************************)
(* AsyncCommandManager: the registered commands and one interpret pass     *)
(***************************************************************************)

\* self.commands after the demo's add_command(name="send", ...): keys are name.lower()
commands == { <<"s","e","n","d">> }

\* the locals of a fresh stream_commands pass
NewInterp ==
    [inside_command |-> 0,
     command_str    |-> <<>>,
     yielded        |-> <<>>,      \* every result the generator yielded, in order
     calls          |-> <<>>,      \* every `await command(command_data)`, in order
     raised         |-> "no",      \* the exception that ended the pass, if any
     running        |-> FALSE,     \* process is suspended in `await command(command_data)`
     returned       |-> 0,         \* how many of the calls have returned
     ended          |-> FALSE]     \* the stream was exhausted and the generator returned

\* CompleteCommand with an unknown command dropped instead of raised
CompleteCommand_skip(ci, command_str) ==
    LET _command_str  == SliceInner(command_str)
        seperator_idx == IndexOf(_command_str, ":")
        command_name  == IF seperator_idx > 0
                         THEN Strip(SubSeq(_command_str, 1, seperator_idx))
                         ELSE _command_str
        command_data  == IF seperator_idx > 0
                         THEN Strip(SubSeq(_command_str, seperator_idx + 2, Len(_command_str)))
                         ELSE None
    IN  IF Lower(command_name) \in commands
        THEN [ci EXCEPT !.calls = Append(@, [name |-> Lower(command_name), data |-> command_data]),
                        !.command_str = command_str,
                        !.running = TRUE]
        ELSE [ci EXCEPT !.command_str = <<>>]

\* the `if inside_command == 0:` block of process: parse command_str, look the
\* command up, call it or raise
CompleteCommand(ci, command_str) ==
    LET _command_str   == SliceInner(command_str)
        has_sep        == Contains(command_str, ":")
        seperator_idx  == IF has_sep THEN IndexOf(_command_str, ":") ELSE 0
        \* `if seperator_idx:` is false for None and for 0
        use_sep        == has_sep /\ seperator_idx > 0
        command_name   == IF use_sep
                          THEN Strip(SubSeq(_command_str, 1, seperator_idx))
                          ELSE _command_str
        command_data   == IF use_sep
                          THEN Strip(SubSeq(_command_str, seperator_idx + 2, Len(_command_str)))
                          ELSE None
    IN  IF has_sep /\ seperator_idx = -1
        THEN [ci EXCEPT !.command_str = command_str, !.raised = "ValueError"]
        ELSE IF Lower(command_name) \in commands
        THEN [ci EXCEPT !.calls = Append(@, [name |-> Lower(command_name), data |-> command_data]),
                        !.command_str = command_str,
                        !.running = TRUE]
        ELSE [ci EXCEPT !.command_str = command_str, !.raised = "NotImplementedError"]

\* `await command(command_data)` returns: process goes on with `command_str = ""` and
\* returns result (None for the closing bracket)
command_return(ci) ==
    [ci EXCEPT !.running = FALSE, !.returned = @ + 1, !.command_str = <<>>]

\* process without a depth counter: the first "]" closes the command
process_flat(ci, char) ==
    LET inside1 == IF char = <<"[">> THEN 1 ELSE ci.inside_command
        buffered == inside1 # 0
        command_str == IF buffered THEN ci.command_str \o char ELSE ci.command_str
        inside2 == IF char = <<"]">> THEN 0 ELSE inside1
        ci1 == [ci EXCEPT !.inside_command = inside2, !.command_str = command_str]
        ci2 == IF char = <<"]">> /\ buffered THEN CompleteCommand(ci1, command_str) ELSE ci1
    IN  IF ci2.raised # "no" \/ buffered \/ char = <<>>
        THEN ci2
        ELSE [ci2 EXCEPT !.yielded = @ \o char]

\* process(char) followed by `if result: yield result`.  An item of the stream is a
\* text: one character when the stream is a character iterator.  When the item closes a
\* registered command, process is left suspended in the handler (running).
process(ci, char) ==
    LET inside1 == IF char = <<"[">> THEN ci.inside_command + 1 ELSE ci.inside_command
        buffered == inside1 # 0
        command_str == IF buffered THEN ci.command_str \o char ELSE ci.command_str
        inside2 == IF char = <<"]">> THEN inside1 - 1 ELSE inside1
        ci1 == [ci EXCEPT !.inside_command = inside2, !.command_str = command_str]
        ci2 == IF char = <<"]">> /\ inside2 = 0 THEN CompleteCommand(ci1, command_str) ELSE ci1
    IN  \* a raise inside process leaves the generator before the yield
        IF ci2.raised # "no" \/ buffered \/ char = <<>>
        THEN ci2
        ELSE [ci2 EXCEPT !.yielded = @ \o char]

\* process(char) with the handler it awaits run to its return
process_returned(ci, char) ==
    LET c == process(ci, char) IN IF c.running THEN command_return(c) ELSE c

(***************************************************************************)
(* AsyncChatClient.stream_request (content deltas) and stream_completion   *)
(***************************************************************************)

start_think_tag == <<"<","t","h","i","n","k",">">>
end_think_tag   == <<"<","/","t","h","i","n","k",">">>

\* max(len(start_think_tag), len(end_think_tag))
max_buffer_size ==
    IF Len(start_think_tag) > Len(end_think_tag) THEN Len(start_think_tag) ELSE Len(end_think_tag)

\* `for char in content: yield char`: the items stream_request yields for one delta
stream_request_items(content) == [i \in 1..Len(content) |-> <<content[i]>>]

\* the locals of a fresh stream_completion call
NewThink ==
    [lookbehind_buffer |-> <<>>,
     is_thinking       |-> FALSE,
     out               |-> <<>>,   \* what the last step yielded (empty: nothing)
     yielded           |-> <<>>,   \* everything yielded so far, joined
     consumed          |-> 0,      \* how many characters stream_request has delivered
     buffer_at         |-> <<>>,   \* where in that stream the buffer's characters stood
     yielded_at        |-> <<>>,   \* where in that stream the yielded characters stood
     ended             |-> FALSE]

\* stream_completion_step without `if not is_thinking` in front of the yield
stream_completion_step_unguarded(th, char) ==
    LET buf1     == th.lookbehind_buffer \o char
        at1      == Append(th.buffer_at, th.consumed + 1)
        overflow == Len(buf1) > max_buffer_size
        char_to_yield == IF overflow THEN <<buf1[1]>> ELSE <<>>
        buf2     == IF overflow THEN Tail(buf1) ELSE buf1
        at2      == IF overflow THEN Tail(at1) ELSE at1
        out      == IF overflow THEN char_to_yield ELSE <<>>
        opens    == EndsWith(buf2, start_think_tag)
        closes   == ~opens /\ EndsWith(buf2, end_think_tag) /\ th.is_thinking
    IN  [th EXCEPT !.lookbehind_buffer = IF opens \/ closes THEN <<>> ELSE buf2,
                   !.buffer_at = IF opens \/ closes THEN <<>> ELSE at2,
                   !.is_thinking = IF opens THEN TRUE ELSE IF closes THEN FALSE ELSE @,
                   !.out = out,
                   !.yielded = @ \o out,
                   !.yielded_at = IF out # <<>> THEN Append(@, at1[1]) ELSE @,
                   !.consumed = @ + 1]

\* one iteration of `async for char in self.stream_request()` in stream_completion
stream_completion_step(th, char) ==
    LET buf1     == th.lookbehind_buffer \o char
        at1      == Append(th.buffer_at, th.consumed + 1)
        overflow == Len(buf1) > max_buffer_size
        char_to_yield == IF overflow THEN <<buf1[1]>> ELSE <<>>
        buf2     == IF overflow THEN Tail(buf1) ELSE buf1
        at2      == IF overflow THEN Tail(at1) ELSE at1
        out      == IF overflow /\ ~th.is_thinking THEN char_to_yield ELSE <<>>
        opens    == EndsWith(buf2, start_think_tag)
        closes   == ~opens /\ EndsWith(buf2, end_think_tag) /\ th.is_thinking
    IN  [th EXCEPT !.lookbehind_buffer = IF opens \/ closes THEN <<>> ELSE buf2,
                   !.buffer_at = IF opens \/ closes THEN <<>> ELSE at2,
                   !.is_thinking = IF opens THEN TRUE ELSE IF closes THEN FALSE ELSE @,
                   !.out = out,
                   !.yielded = @ \o out,
                   !.yielded_at = IF out # <<>> THEN Append(@, at1[1]) ELSE @,
                   !.consumed = @ + 1]

\* the code after the loop with `yield lookbehind_buffer` for the per-character loop:
\* stream_commands then receives the buffer as one item
stream_completion_end_whole ==
    /\ pending_chars = <<>>
    /\ upstream = <<>>
    /\ ~think.ended
    /\ interp.raised = "no"
    /\ LET out == IF ~think.is_thinking THEN think.lookbehind_buffer ELSE <<>>
           ci  == IF out = <<>> THEN interp ELSE process_returned(interp, out)
       IN  /\ think' = [think EXCEPT !.out = out, !.yielded = @ \o out, !.ended = TRUE]
           /\ interp' = [ci EXCEPT !.ended = (ci.raised = "no")]
    /\ UNCHANGED <<stream, upstream, pending_chars, given, outsidePipeline>>

\* the code after the loop: the buffer is yielded character by character
stream_completion_flush(th) ==
    LET out == IF ~th.is_thinking THEN th.lookbehind_buffer ELSE <<>>
    IN  [th EXCEPT !.out = out, !.yielded = @ \o out,
                   !.yielded_at = IF ~th.is_thinking THEN @ \o th.buffer_at ELSE @,
                   !.ended = TRUE]

RECURSIVE process_all(_, _)
\* stream_commands consuming the items `items` one after the other; a raise ends the pass
process_all(ci, items) ==
    IF items = <<>> \/ ci.raised # "no"
    THEN ci
    ELSE process_all(process_returned(ci, Head(items)), Tail(items))

(***************************************************************************)
(* Inputs                                                                  *)
(***************************************************************************)

\* the texts of src/pixi/commands.py's demo and of the specification's examples
NestedText  == <<"[","S","E","N","D",":"," ","o","u","t","e","r"," ","[","i","n","n","e","r","]"," ","s","t","i","l","l","-","o","u","t","e","r","]">>
NestedData  == <<"o","u","t","e","r"," ","[","i","n","n","e","r","]"," ","s","t","i","l","l","-","o","u","t","e","r">>
UnknownText == <<"[","N","O","N","E","]">>
UnknownMidText == <<"x","[","N","O","N","E","]","y","[","S","E","N","D",":"," ","a","]">>
SendHiText  == <<"[","S","E","N","D",":"," ","h","i","]">>
ThinkText   == <<"h","e","<","t","h","i","n","k",">","s","e","c","r","e","t","<","/","t","h","i","n","k",">","l","l","o">>
HelloText   == <<"h","e","l","l","o">>
OrderText   == <<"[","S","E","N","D",":"," ","a","]","x","[","S","E","N","D",":"," ","b","]","[","S","E","N","D","]">>
send        == <<"s","e","n","d">>

\* at most this many pieces make up a generated text
MaxPieces == 4
\* at most this many content deltas carry one text
MaxChunks == 3

Pieces == { <<"[">>, <<"]">>, <<":">>, <<" ">>, <<"S","E","N","D">>, <<"N","O">>, <<"a">> }

RECURSIVE PieceTexts(_)
\* the texts made of at most n pieces
PieceTexts(n) ==
    IF n = 0 THEN { <<>> }
    ELSE LET shorter == PieceTexts(n - 1)
         IN  shorter \cup { t \o p : t \in shorter, p \in Pieces }

\* a registered name with whitespace around it and no data
SpacedSendText == <<"["," ","s","e","n","d"," ","]">>

\* a closing bracket at depth 0, plain text, then a registered command
StrayCloseText == <<"]","x","[","S","E","N","D",":"," ","a","]">>

InterpTexts ==
    { NestedText, UnknownText, UnknownMidText, SendHiText, OrderText, SpacedSendText,
      StrayCloseText }
    \cup PieceTexts(MaxPieces)

\* iter(text): one item per character
Chars(text) == [i \in 1..Len(text) |-> <<text[i]>>]

RECURSIVE Splits(_, _)
\* the ways the API may cut a text into at most k non-empty content deltas
Splits(text, k) ==
    IF k <= 1 \/ Len(text) <= 1
    THEN { <<text>> }
    ELSE { <<text>> } \cup
         UNION { { <<SubSeq(text, 1, i)>> \o rest : rest \in Splits(SubSeq(text, i + 1, Len(text)), k - 1) }
                 : i \in 1..(Len(text) - 1) }

StreamTexts == { SendHiText, ThinkText, UnknownMidText }

\* every text cut into at most MaxChunks deltas, and into one delta per character
StreamInputs ==
    UNION { Splits(t, MaxChunks) \cup { Chars(t) } : t \in StreamTexts }

(***************************************************************************)
(* SpecInterp: stream_commands over a character iterator, as the demo runs *)
(* it: `async for char in command_maneger.stream_commands(iter(test_text))`*)
(***************************************************************************)

InterpIdle == stream = <<>> /\ interp = NewInterp
StreamIdle == upstream = <<>> /\ pending_chars = <<>> /\ think = NewThink
ToolsIdle  ==
    /\ events = <<>> /\ partial_function_calls = <<>> /\ last_function_call_index = -1
    /\ tool_call_queue = <<>> /\ queued_calls = <<>> /\ messages = <<>>
    /\ req = [pc |-> "idle", consumed |-> 0, response |-> <<>>, finish_reason |-> None,
              round |-> 0, requests |-> 0, yielded |-> <<>>]

\* AsyncChatbotInstance.__init__ with messages=None: an empty transcript
\* (AsyncChatClient: `self.messages = messages or []`), realtime_data = dict(),
\* is_notes_visible = False
NewInstance == [messages |-> <<>>, realtime_data |-> <<>>, is_notes_visible |-> FALSE]

\* no message has arrived for the channel, and nothing has asked the factory for an
\* instance
ChannelIdle ==
    /\ lists = << <<>> >> /\ messages_ref = 1
    /\ tasks = <<>> /\ channel_active_tasks = <<>>
    /\ handlers = <<>> /\ effects = <<>>
    /\ factory = <<>>

PersistIdle ==
    /\ instance = NewInstance /\ storage = <<>> /\ loaded = <<>>
    /\ rebuilt = <<>> /\ construction = <<>>
    /\ context = [messages |-> <<>>, system_prompt_size |-> 0, result |-> <<>>,
                  enforce_system_header |-> FALSE, request |-> <<>>,
                  rearrange_predicate |-> "None"]
    /\ ChannelIdle

InitInterp ==
    /\ \E t \in InterpTexts : given = <<t>> /\ stream = Chars(t)
    /\ interp = NewInterp
    /\ StreamIdle
    /\ ToolsIdle
    /\ PersistIdle

\* stream_commands_next with the handler started and not awaited: the next character
\* is consumed while the handler is still running
stream_commands_next_nowait ==
    /\ stream # <<>>
    /\ interp.raised = "no"
    /\ interp' = process(interp, Head(stream))
    /\ stream' = Tail(stream)
    /\ UNCHANGED <<streamVars, given, outsidePipeline>>

\* `for char in stream: result = await process(char); if result: yield result`
stream_commands_next ==
    /\ stream # <<>>
    /\ interp.raised = "no"
    /\ ~interp.running
    /\ interp' = process(interp, Head(stream))
    /\ stream' = Tail(stream)
    /\ UNCHANGED <<streamVars, given, outsidePipeline>>

\* the handler a closing bracket started returns, and process with it
command_returns ==
    /\ interp.running
    /\ interp' = command_return(interp)
    /\ UNCHANGED <<stream, streamVars, given, outsidePipeline>>

\* the iterator is exhausted: the generator returns
stream_commands_end ==
    /\ stream = <<>>
    /\ interp.raised = "no"
    /\ ~interp.running
    /\ ~interp.ended
    /\ interp' = [interp EXCEPT !.ended = TRUE]
    /\ UNCHANGED <<stream, streamVars, given, outsidePipeline>>

NextInterp == stream_commands_next \/ command_returns \/ stream_commands_end

SpecInterp == InitInterp /\ [][NextInterp]_vars

(***************************************************************************)
(* SpecStream: the production pipeline of stream_call: the API's content   *)
(* deltas -> stream_request -> stream_completion -> stream_commands        *)
(***************************************************************************)

InitStream ==
    /\ given \in StreamInputs
    /\ upstream = given
    /\ pending_chars = <<>>
    /\ think = NewThink
    /\ InterpIdle
    /\ ToolsIdle
    /\ PersistIdle

\* stream_request receives the next event and starts yielding its content
stream_request_delta ==
    /\ pending_chars = <<>>
    /\ upstream # <<>>
    /\ interp.raised = "no"
    /\ pending_chars' = stream_request_items(Head(upstream))
    /\ upstream' = Tail(upstream)
    /\ UNCHANGED <<think, interpVars, given, outsidePipeline>>

\* one item travels from stream_request through stream_completion into stream_commands
stream_completion_char ==
    /\ pending_chars # <<>>
    /\ interp.raised = "no"
    /\ LET th == stream_completion_step(think, Head(pending_chars))
       IN  /\ think' = th
           /\ interp' = IF th.out = <<>> THEN interp ELSE process_returned(interp, th.out)
    /\ pending_chars' = Tail(pending_chars)
    /\ UNCHANGED <<stream, upstream, given, outsidePipeline>>

\* the upstream ended: stream_completion flushes its buffer and every generator returns
stream_completion_end ==
    /\ pending_chars = <<>>
    /\ upstream = <<>>
    /\ ~think.ended
    /\ interp.raised = "no"
    /\ LET th == stream_completion_flush(think)
           ci == process_all(interp, Chars(th.out))
       IN  /\ think' = th
           /\ interp' = [ci EXCEPT !.ended = (ci.raised = "no")]
    /\ UNCHANGED <<stream, upstream, pending_chars, given, outsidePipeline>>

NextStream == stream_request_delta \/ stream_completion_char \/ stream_completion_end

SpecStream == InitStream /\ [][NextStream]_vars

(***************************************************************************)
(* SpecThink: the same pipeline over texts built of think markers          *)
(***************************************************************************)

\* at most this many pieces make up a text with think markers
MaxThinkPieces == 4

\* the markers, one character, a run longer than the lookbehind buffer, and the start
\* of a marker
ThinkPieces ==
    { start_think_tag, end_think_tag, <<"a">>,
      <<"b","c","d","e","f","g","h","i","j">>, <<"<","t","h">> }

RECURSIVE ThinkPieceTexts(_)
\* the non-empty texts made of at most n pieces
ThinkPieceTexts(n) ==
    IF n = 0 THEN { }
    ELSE LET shorter == ThinkPieceTexts(n - 1)
         IN  shorter \cup ThinkPieces \cup { t \o p : t \in shorter, p \in ThinkPieces }

\* every text as one content delta, as one delta per character, and cut in two halves
ThinkInputs ==
    UNION { { <<t>>, Chars(t) } \cup
            (IF Len(t) > 1
             THEN { <<SubSeq(t, 1, Len(t) \div 2), SubSeq(t, Len(t) \div 2 + 1, Len(t))>> }
             ELSE { })
            : t \in ThinkPieceTexts(MaxThinkPieces) }

InitThink ==
    /\ given \in ThinkInputs
    /\ upstream = given
    /\ pending_chars = <<>>
    /\ think = NewThink
    /\ InterpIdle
    /\ ToolsIdle
    /\ PersistIdle

NextThink == stream_request_delta \/ stream_completion_char \/ stream_completion_end

SpecThink == InitThink /\ [][NextThink]_vars

(***************************************************************************)
(* Claims about the interpreter and the completion stream                  *)
(***************************************************************************)

SendCall(data) == [name |-> send, data |-> data]

\* C1: interpreting "[SEND: outer [inner] still-outer]" yields no plain character at
\* any point of the pass and calls the SEND handler exactly once, with the data
\* "outer [inner] still-outer" (inner brackets included), raising nothing.
C1_NestedBrackets ==
    given = <<NestedText>> =>
        /\ interp.yielded = <<>>
        /\ interp.raised = "no"
        /\ interp.calls \in { <<>>, <<SendCall(NestedData)>> }
        /\ interp.ended => interp.calls = <<SendCall(NestedData)>>

C1_Witness ==
    given = <<NestedText>> /\ interp.ended /\ Len(interp.calls) = 1

\* C2: however the API cuts "[SEND: hi]" into content deltas (one delta, one delta per
\* character, "[SE" "ND: h" "i]", or any other cut), the pipeline yields no plain
\* text and calls SEND exactly once with the data "hi".
C2_ChunkIndependence ==
    Concat(given) = SendHiText =>
        /\ interp.yielded = <<>>
        /\ interp.raised = "no"
        /\ interp.calls \in { <<>>, <<SendCall(<<"h","i">>)>> }
        /\ interp.ended => interp.calls = <<SendCall(<<"h","i">>)>>

C2_Witness ==
    /\ given = << <<"[","S","E">>, <<"N","D",":"," ","h">>, <<"i","]">> >>
    /\ interp.ended
    /\ interp.calls = <<SendCall(<<"h","i">>)>>

\* C3: a complete command with an unregistered name ("[NONE]", alone or in the middle
\* of a text) ends the pass with NotImplementedError: no handler is called for it, the
\* pass never returns normally, and nothing after the command is consumed, yielded or
\* called.
C3_UnknownCommandRaises ==
    /\ given = <<UnknownText>> =>
            /\ interp.yielded = <<>> /\ interp.calls = <<>> /\ ~interp.ended
            /\ stream = <<>> => interp.raised = "NotImplementedError"
    /\ given = <<UnknownMidText>> =>
            /\ interp.calls = <<>> /\ ~interp.ended
            /\ interp.yielded \in { <<>>, <<"x">> }
            /\ Len(stream) >= 10
            /\ Len(stream) = 10 => interp.raised = "NotImplementedError"

C3_Witness ==
    given = <<UnknownMidText>> /\ interp.raised = "NotImplementedError" /\ Len(stream) = 10

\* C4: for every cut of "he<think>secret</think>llo" into content deltas,
\* stream_completion has yielded exactly "hello" when it returns.
C4_ThinkSegmentRemoved ==
    (Concat(given) = ThinkText /\ think.ended) => think.yielded = HelloText

\* the characters of the interpreted text the pass has consumed
Consumed == SubSeq(given[1], 1, Len(given[1]) - Len(stream))

\* the number of characters of p equal to c
Count(p, c) == Cardinality({ i \in 1..Len(p) : p[i] = c })

\* the signed bracket depth after the text p
SignedDepth(p) == Count(p, "[") - Count(p, "]")

\* the positions of p at which a closing bracket returns the depth to 0
Closings(p) == { i \in 1..Len(p) : p[i] = "]" /\ SignedDepth(SubSeq(p, 1, i)) = 0 }

OrderCalls == <<SendCall(<<"a">>), SendCall(<<"b">>), SendCall(None)>>

HandlersNeverOverlap ==
    /\ interp.returned <= Len(interp.calls)
    /\ Len(interp.calls) <= interp.returned + 1
    /\ interp.running <=> Len(interp.calls) = interp.returned + 1

DispatchedWhereClosed ==
    Len(interp.calls) + (IF interp.raised = "no" THEN 0 ELSE 1) = Cardinality(Closings(Consumed))

DispatchedInOrder ==
    given = <<OrderText>> =>
        interp.calls = SubSeq(OrderCalls, 1, Cardinality(Closings(Consumed)))

HandlerReturnedBeforeNextStep ==
    (stream' # stream \/ interp'.calls # interp.calls) =>
        /\ ~interp.running
        /\ interp.returned = Len(interp.calls)
        /\ SubSeq(interp'.calls, 1, Len(interp.calls)) = interp.calls

\* C11: within one pass, a command is dispatched when, and only when, its closing
\* bracket returns the depth to 0, so the calls are in the order of the closings
\* ("[SEND: a]x[SEND: b][SEND]" calls SEND with a, then b, then without data); at
\* most one handler is running at any time, and every handler called so far has
\* returned before the pass consumes another character or calls another handler.
C11_DispatchInClosingOrder ==
    /\ [](HandlersNeverOverlap /\ DispatchedWhereClosed /\ DispatchedInOrder)
    /\ [][HandlerReturnedBeforeNextStep]_vars

C11_Witness ==
    /\ given = <<OrderText>>
    /\ interp.calls = OrderCalls
    /\ interp.returned = 3
    /\ interp.ended

RECURSIVE OutsideText(_, _)
\* the characters of p that lie outside every bracket span, for a text that starts at
\* nesting depth d: a span opens at "[" and closes at the "]" that matches it, and a
\* "]" that matches no "[" opens or closes nothing
OutsideText(p, d) ==
    IF p = <<>> THEN <<>>
    ELSE IF Head(p) = "[" THEN OutsideText(Tail(p), d + 1)
    ELSE IF Head(p) = "]" /\ d > 0 THEN OutsideText(Tail(p), d - 1)
    ELSE IF d > 0 THEN OutsideText(Tail(p), d)
    ELSE <<Head(p)>> \o OutsideText(Tail(p), 0)

RECURSIVE ClosedSpans(_, _)
\* the number of outermost bracket spans of p that are closed
ClosedSpans(p, d) ==
    IF p = <<>> THEN 0
    ELSE IF Head(p) = "[" THEN ClosedSpans(Tail(p), d + 1)
    ELSE IF Head(p) = "]" /\ d > 0
         THEN (IF d = 1 THEN 1 ELSE 0) + ClosedSpans(Tail(p), d - 1)
    ELSE ClosedSpans(Tail(p), d)

\* C12: at every point of a pass, what stream_commands has yielded is exactly the
\* consumed characters that lie outside every bracket span, in input order (so no
\* bracket and no character of a span, closed or still open, is ever yielded), and no
\* handler has been called for a span that is not closed.
C12_OnlyOutsideCharactersYielded ==
    /\ interp.yielded = OutsideText(Consumed, 0)
    /\ Len(interp.calls) <= ClosedSpans(Consumed, 0)

(***************************************************************************)
(* AsyncChatClient.stream_request: tool-call fragments                     *)
(***************************************************************************)

Digits == {"1", "2"}

\* json.loads on the argument texts the model's upstream sends: "{}" and objects of
\* one key with a digit value; any other text (a prefix of one) is a JSONDecodeError
JsonLoads(text) ==
    IF text = <<"{", "}">>
    THEN [ok |-> TRUE, value |-> <<>>]
    ELSE IF /\ Len(text) = 7
            /\ text[1] = "{" /\ text[2] = "\"" /\ text[3] = "a" /\ text[4] = "\""
            /\ text[5] = ":" /\ text[6] \in Digits /\ text[7] = "}"
    THEN [ok |-> TRUE, value |-> << <<text[3], text[6]>> >>]
    ELSE [ok |-> FALSE, value |-> <<>>]

\* PartialFunctionCall.to_function_call: `json.loads(self.arguments) if self.arguments else {}`
to_function_call(pfc) ==
    LET parsed == IF pfc.arguments = None \/ pfc.arguments = <<>>
                  THEN [ok |-> TRUE, value |-> <<>>]
                  ELSE JsonLoads(pfc.arguments)
    IN  [ok |-> parsed.ok,
         call |-> [name |-> pfc.name, index |-> pfc.index, id |-> pfc.id,
                   arguments |-> parsed.value]]

\* time.time() when a message is constructed without a usable message_time
Now == 9

\* utils.exists(value) for a text or None; allow_empty_string as in the source
exists_str(value, allow_empty_string) ==
    value # None /\ (value # <<>> \/ allow_empty_string)

\* utils.exists(value) for a list or a dict (None is modelled as the empty one wherever
\* the constructor treats both alike: tool_calls, images, audio)
exists_list(value) == value # <<>>

\* utils.exists(metadata): a dict is a flat sequence key, value, ...; None is None
exists_dict(value) == value # None /\ value # <<>>

\* the role-specific assertions of ChatMessage.__init__ (lines 123-177)
role_requirements(role, content, metadata, images, tool_calls, tool_call_id) ==
    CASE role = "system" ->
            /\ exists_str(content, TRUE)
            /\ ~exists_dict(metadata)
            /\ ~exists_list(tool_calls)
            /\ ~exists_str(tool_call_id, FALSE)
            /\ ~exists_list(images)
      [] role = "assistant" ->
            /\ ~exists_dict(metadata)
            /\ ~exists_str(tool_call_id, FALSE)
            /\ ~exists_list(images)
            /\ exists_list(tool_calls) => ~exists_str(content, TRUE)
      [] role = "user" ->
            /\ exists_str(content, TRUE)
            /\ ~exists_list(tool_calls)
            /\ ~exists_str(tool_call_id, FALSE)
      [] role = "tool" ->
            /\ exists_str(content, TRUE)
            /\ ~exists_dict(metadata)
            /\ exists_str(tool_call_id, FALSE)
            /\ ~exists_list(images)
      [] OTHER -> FALSE

\* ChatMessage.__init__: ok is FALSE when an assertion fails (or the role is invalid)
ChatMessage(role, content, metadata, message_time, images, audio, tool_calls, tool_call_id) ==
    [ok  |-> role_requirements(role, content, metadata, images, tool_calls, tool_call_id),
     msg |-> [role |-> role, content |-> content, metadata |-> metadata,
              time |-> IF message_time > 0 THEN message_time ELSE Now,
              images |-> images, audio |-> audio,
              tool_calls |-> tool_calls, tool_call_id |-> tool_call_id]]

\* self.tools: f returns a value, g raises; no other name is registered
tools        == { <<"f">>, <<"g">> }
RaisingTools == { <<"g">> }

\* the content of the tool message get_tool_results builds for one call
tool_result_content(fn) ==
    IF fn.name \notin tools
    THEN <<"Tool '">> \o fn.name \o <<"' was not found.">>
    ELSE IF fn.name \in RaisingTools
    THEN <<"Tool error: ">> \o <<"boom">>
    ELSE <<"result of ">> \o fn.name

\* get_tool_results with the message that carries the calls appended after the results
get_tool_results_answers_first(function_calls) ==
    LET first == ChatMessage("assistant", None, None, 0, <<>>, <<>>, function_calls, None)
        answer(fn) == ChatMessage("tool", tool_result_content(fn), None, 0, <<>>, <<>>, <<>>, fn.id)
    IN  [ok |-> first.ok /\ \A i \in 1..Len(function_calls) : answer(function_calls[i]).ok,
         results |-> [i \in 1..Len(function_calls) |-> answer(function_calls[i]).msg]
                     \o <<first.msg>>]

\* get_tool_results without its try/except and with tools[fn.name] for tools.get: the
\* handler's exception, or the KeyError, leaves the function
get_tool_results_uncaught(function_calls) ==
    LET first == ChatMessage("assistant", None, None, 0, <<>>, <<>>, function_calls, None)
        answer(fn) == ChatMessage("tool", tool_result_content(fn), None, 0, <<>>, <<>>, <<>>, fn.id)
    IN  [ok |-> /\ first.ok
                /\ \A i \in 1..Len(function_calls) :
                      /\ answer(function_calls[i]).ok
                      /\ function_calls[i].name \in tools \ RaisingTools,
         results |-> <<first.msg>> \o
                     [i \in 1..Len(function_calls) |-> answer(function_calls[i]).msg]]

\* get_tool_results: one assistant message carrying the calls, then one tool message
\* per call; ok is FALSE when a ChatMessage constructor's assertion fails
get_tool_results(function_calls) ==
    LET first == ChatMessage("assistant", None, None, 0, <<>>, <<>>, function_calls, None)
        answer(fn) == ChatMessage("tool", tool_result_content(fn), None, 0, <<>>, <<>>, <<>>, fn.id)
    IN  [ok |-> first.ok /\ \A i \in 1..Len(function_calls) : answer(function_calls[i]).ok,
         results |-> <<first.msg>> \o
                     [i \in 1..Len(function_calls) |-> answer(function_calls[i]).msg]]

\* the position of index in the dict's insertion order, 0 when absent
PartialAt(pfcs, index) ==
    IF \E i \in 1..Len(pfcs) : pfcs[i].index = index
    THEN CHOOSE i \in 1..Len(pfcs) : pfcs[i].index = index
    ELSE 0

\* partial_function_calls after lines 548-567 handled one fragment
accumulate(pfcs, frag) ==
    LET at == PartialAt(pfcs, frag.index)
    IN  IF at # 0
        THEN LET prev == pfcs[at]
                 new_function_arguments ==
                     IF frag.arguments # None /\ frag.arguments # <<>>
                     THEN (IF prev.arguments = None THEN <<>> ELSE prev.arguments) \o frag.arguments
                     ELSE prev.arguments
             IN  [pfcs EXCEPT ![at] = [name |-> prev.name, arguments |-> new_function_arguments,
                                      index |-> frag.index, id |-> prev.id]]
        ELSE Append(pfcs, [name |-> frag.name, arguments |-> frag.arguments,
                           index |-> frag.index, id |-> frag.id])

\* the index whose call lines 569-572 pop and dispatch when the fragment's index differs
\* from the last one: `partial_function_calls.pop(function_index)`
index_to_finalize(function_index, last_index) == function_index

\* dict.pop(index)
Without(pfcs, index) ==
    LET keep == { i \in 1..Len(pfcs) : pfcs[i].index # index }
        RECURSIVE Sel(_)
        Sel(i) == IF i > Len(pfcs) THEN <<>>
                  ELSE (IF i \in keep THEN <<pfcs[i]>> ELSE <<>>) \o Sel(i + 1)
    IN  Sel(1)

\* the events of the upstream
Fragment(index, id, name, arguments) ==
    [kind |-> "tool", index |-> index, id |-> id, name |-> name, arguments |-> arguments,
     content |-> <<>>, finish_reason |-> None]
Content(content) ==
    [kind |-> "content", index |-> -1, id |-> None, name |-> None, arguments |-> None,
     content |-> content, finish_reason |-> None]
Finish(reason) ==
    [kind |-> "finish", index |-> -1, id |-> None, name |-> None, arguments |-> None,
     content |-> <<>>, finish_reason |-> reason]

\* at most this many tool calls in one response
MaxCalls == 3

CallIds   == [i \in 0..3 |-> << <<"call_0">>, <<"call_1">>, <<"call_2">>, <<"call_3">> >>[i + 1]]
CallNames == [i \in 0..3 |-> IF i = 0 THEN <<"f">> ELSE IF i = 1 THEN <<"g">> ELSE <<"h">>]

ArgsA1 == <<"{","\"","a","\"",":","1","}">>

\* the ways the API delivers one call's arguments, first fragment first
ArgPieces ==
    { << <<"{","\"","a","\"",":">>, <<"1">>, <<"}">> >>,
      << <<>>, ArgsA1 >>,
      << <<"{", "}">> >>,
      << <<>> >> }

\* the fragments of call `index`: the first carries the id and the name
CallFragments(index, pieces) ==
    [k \in 1..Len(pieces) |->
        IF k = 1 THEN Fragment(index, CallIds[index], CallNames[index], pieces[1])
        ELSE Fragment(index, None, None, pieces[k])]

RECURSIVE CallStreams(_)
\* the fragment streams of n calls, indices 0..n-1 in order
CallStreams(n) ==
    IF n = 0 THEN { <<>> }
    ELSE { prev \o CallFragments(n - 1, p) : prev \in CallStreams(n - 1), p \in ArgPieces }

EventStreams ==
    { pre \o ts \o <<Finish(IF ts = <<>> THEN <<"stop">> ELSE <<"tool_calls">>)>> :
        pre \in { <<>>, <<Content(<<"x">>)>> },
        ts \in UNION { CallStreams(n) : n \in 0..MaxCalls } }

(***************************************************************************)
(* SpecTools: one stream_request over a stream of tool-call fragments      *)
(***************************************************************************)

InitTools ==
    /\ events \in EventStreams
    /\ partial_function_calls = <<>>
    /\ last_function_call_index = -1
    /\ tool_call_queue = <<>>
    /\ queued_calls = <<>>
    /\ messages = <<>>
    /\ req = [pc |-> "streaming", consumed |-> 0, response |-> <<>>, finish_reason |-> None,
              round |-> 1, requests |-> 1, yielded |-> <<>>]
    /\ given = events
    /\ InterpIdle /\ StreamIdle /\ PersistIdle

\* lines 541-575: one fragment of choice.delta.tool_calls
tool_fragment ==
    /\ req.pc = "streaming"
    /\ events # <<>>
    /\ Head(events).kind = "tool"
    /\ LET frag == Head(events)
           pfcs == accumulate(partial_function_calls, frag)
           finalize == last_function_call_index # -1 /\ frag.index # last_function_call_index
           popped == index_to_finalize(frag.index, last_function_call_index)
           fc == to_function_call(pfcs[PartialAt(pfcs, popped)])
       IN  IF ~finalize
           THEN /\ partial_function_calls' = pfcs
                /\ req' = [req EXCEPT !.consumed = @ + 1]
                /\ UNCHANGED <<tool_call_queue, queued_calls>>
           ELSE IF ~fc.ok
           THEN \* json.loads raised inside stream_request
                /\ partial_function_calls' = Without(pfcs, popped)
                /\ req' = [req EXCEPT !.consumed = @ + 1, !.pc = "raised"]
                /\ UNCHANGED <<tool_call_queue, queued_calls>>
           ELSE /\ partial_function_calls' = Without(pfcs, popped)
                /\ tool_call_queue' = Append(tool_call_queue, fc.call)
                /\ queued_calls' = Append(queued_calls, [call |-> fc.call, at |-> req.consumed + 1])
                /\ req' = [req EXCEPT !.consumed = @ + 1]
    /\ last_function_call_index' = Head(events).index
    /\ events' = Tail(events)
    /\ UNCHANGED <<messages, outsideTools>>

\* lines 580-586: a content delta
content_delta ==
    /\ req.pc = "streaming"
    /\ events # <<>>
    /\ Head(events).kind = "content"
    /\ req' = [req EXCEPT !.consumed = @ + 1, !.response = @ \o Head(events).content,
                          !.yielded = @ \o Head(events).content]
    /\ events' = Tail(events)
    /\ UNCHANGED <<partial_function_calls, last_function_call_index, tool_call_queue,
                   queued_calls, messages, outsideTools>>

\* lines 577-578: the event that carries finish_reason
finish_event ==
    /\ req.pc = "streaming"
    /\ events # <<>>
    /\ Head(events).kind = "finish"
    /\ req' = [req EXCEPT !.consumed = @ + 1, !.finish_reason = Head(events).finish_reason]
    /\ events' = Tail(events)
    /\ UNCHANGED <<partial_function_calls, last_function_call_index, tool_call_queue,
                   queued_calls, messages, outsideTools>>

\* CoroutineQueueExecutor runs the oldest queued execute_tool_task (lines 525-529)
execute_tool_task ==
    /\ tool_call_queue # <<>>
    /\ LET r == get_tool_results(<<Head(tool_call_queue)>>)
       IN  messages' = IF r.ok THEN messages \o r.results ELSE messages
    /\ tool_call_queue' = Tail(tool_call_queue)
    /\ UNCHANGED <<events, partial_function_calls, last_function_call_index, queued_calls,
                   req, outsideTools>>

\* end_of_stream that goes on without the results of the calls still in
\* partial_function_calls: get_tool_results is started and not awaited
end_of_stream_unawaited ==
    /\ req.pc = "streaming"
    /\ events = <<>>
    /\ tool_call_queue = <<>>
    /\ LET fcs == [i \in 1..Len(partial_function_calls) |->
                     to_function_call(partial_function_calls[i])]
           function_calls == [i \in 1..Len(fcs) |-> fcs[i].call]
           r == get_tool_results(function_calls)
           raised == (\E i \in 1..Len(fcs) : ~fcs[i].ok) \/ (function_calls # <<>> /\ ~r.ok)
           with_results == messages
       IN  IF raised
           THEN /\ req' = [req EXCEPT !.pc = "raised"]
                /\ UNCHANGED messages
           ELSE /\ messages' = IF req.response # <<>>
                               THEN Append(with_results,
                                           ChatMessage("assistant", req.response, None, 0,
                                                       <<>>, <<>>, <<>>, None).msg)
                               ELSE with_results
                /\ req' = [req EXCEPT !.pc = IF req.finish_reason = <<"tool_calls">>
                                             THEN "next_round" ELSE "done"]
    /\ partial_function_calls' = <<>>
    /\ UNCHANGED <<events, last_function_call_index, tool_call_queue, queued_calls, outsideTools>>

\* lines 594-606: the stream ended and the executor has drained its queue: the calls
\* still in partial_function_calls are finalized and executed, the response appended
end_of_stream ==
    /\ req.pc = "streaming"
    /\ events = <<>>
    /\ tool_call_queue = <<>>
    /\ LET fcs == [i \in 1..Len(partial_function_calls) |->
                     to_function_call(partial_function_calls[i])]
           function_calls == [i \in 1..Len(fcs) |-> fcs[i].call]
           r == get_tool_results(function_calls)
           raised == (\E i \in 1..Len(fcs) : ~fcs[i].ok) \/ (function_calls # <<>> /\ ~r.ok)
           with_results == IF function_calls # <<>> THEN messages \o r.results ELSE messages
       IN  IF raised
           THEN /\ req' = [req EXCEPT !.pc = "raised"]
                /\ UNCHANGED messages
           ELSE /\ messages' = IF req.response # <<>>
                               THEN Append(with_results,
                                           ChatMessage("assistant", req.response, None, 0,
                                                       <<>>, <<>>, <<>>, None).msg)
                               ELSE with_results
                /\ req' = [req EXCEPT !.pc = IF req.finish_reason = <<"tool_calls">>
                                             THEN "next_round" ELSE "done"]
    /\ partial_function_calls' = <<>>
    /\ UNCHANGED <<events, last_function_call_index, tool_call_queue, queued_calls, outsideTools>>

NextTools ==
    tool_fragment \/ content_delta \/ finish_event \/ execute_tool_task \/ end_of_stream

SpecTools == InitTools /\ [][NextTools]_vars

(***************************************************************************)
(* SpecRounds: stream_request and its recursive calls, one completion      *)
(* request per round (lines 536 and 608-611)                               *)
(***************************************************************************)

\* at most this many responses of the upstream finish with "tool_calls"
MaxRounds == 2

\* responses that finish with "tool_calls": one call after content, one call and no
\* content, two calls of which the second arrives in two fragments
ToolResponses ==
    { <<Content(<<"a">>)>> \o CallFragments(0, << <<>>, ArgsA1 >>) \o <<Finish(<<"tool_calls">>)>>,
      CallFragments(0, << <<"{", "}">> >>) \o <<Finish(<<"tool_calls">>)>>,
      <<Content(<<"c">>)>> \o CallFragments(0, << <<"{", "}">> >>)
          \o CallFragments(1, << <<>>, ArgsA1 >>) \o <<Finish(<<"tool_calls">>)>> }

\* responses that finish with another reason
FinalResponses ==
    { <<Content(<<"y">>), Finish(<<"stop">>)>>,
      <<Content(<<"z">>), Finish(<<"length">>)>>,
      <<Finish(<<"stop">>)>> }

\* what the upstream answers to the successive requests: k responses that finish with
\* "tool_calls", then one that does not
Upstreams ==
    { rounds \o <<final>> :
        rounds \in UNION { [1..k -> ToolResponses] : k \in 0..MaxRounds },
        final \in FinalResponses }

InitRounds ==
    /\ given \in Upstreams
    /\ events = given[1]
    /\ partial_function_calls = <<>>
    /\ last_function_call_index = -1
    /\ tool_call_queue = <<>>
    /\ queued_calls = <<>>
    /\ messages = <<>>
    /\ req = [pc |-> "streaming", consumed |-> 0, response |-> <<>>, finish_reason |-> None,
              round |-> 1, requests |-> 1, yielded |-> <<>>]
    /\ InterpIdle /\ StreamIdle /\ PersistIdle

\* lines 608-611 and 531-536: finish_reason was "tool_calls", so stream_request calls
\* itself: fresh locals, one more create_chat_completion, its events are the next response
recursive_stream_request ==
    /\ req.pc = "next_round"
    /\ req.round < Len(given)
    /\ events' = given[req.round + 1]
    /\ req' = [req EXCEPT !.pc = "streaming", !.consumed = 0, !.response = <<>>,
                          !.finish_reason = None, !.round = @ + 1, !.requests = @ + 1]
    /\ partial_function_calls' = <<>>
    /\ last_function_call_index' = -1
    /\ queued_calls' = <<>>
    /\ UNCHANGED <<tool_call_queue, messages, outsideTools>>

NextRounds ==
    \/ tool_fragment \/ content_delta \/ finish_event \/ execute_tool_task \/ end_of_stream
    \/ recursive_stream_request

SpecRounds == InitRounds /\ [][NextRounds]_vars

\* the stream of the specification's example: index 0 in three fragments, then index 1
C5Stream ==
    CallFragments(0, << <<"{","\"","a","\"",":">>, <<"1">>, <<"}">> >>) \o CallFragments(1, << <<>> >>)
    \o <<Finish(<<"tool_calls">>)>>

\* C5: when the first fragment of index 1 follows index 0's three fragments, the call
\* handed to the executor at that moment is index 0's, with the name and id of its first
\* fragment and the arguments {"a": 1} parsed from the concatenated pieces; index 1's
\* call is not dispatched before another index appears or the stream ends.
C5_PreviousIndexFinalized ==
    (given = C5Stream /\ req.consumed >= 4) =>
        /\ queued_calls # <<>>
        /\ queued_calls[1] =
              [call |-> [name |-> <<"f">>, index |-> 0, id |-> CallIds[0],
                         arguments |-> << <<"a", "1">> >>],
               at |-> 4]
        /\ \A k \in 2..Len(queued_calls) : queued_calls[k].call.index # 1

\* the message that carries the calls of a round, and the message that answers one
CallsMessage(function_calls) ==
    [role |-> "assistant", content |-> None, metadata |-> None, time |-> Now,
     images |-> <<>>, audio |-> <<>>, tool_calls |-> function_calls, tool_call_id |-> None]
ToolMessage(fn, content) ==
    [role |-> "tool", content |-> content, metadata |-> None, time |-> Now,
     images |-> <<>>, audio |-> <<>>, tool_calls |-> <<>>, tool_call_id |-> fn.id]

\* what the claim says a call is answered with
Answer(fn) ==
    ToolMessage(fn, IF fn.name = <<"g">> THEN <<"Tool error: ", "boom">>
                    ELSE IF fn.name = <<"h">> THEN <<"Tool '", "h", "' was not found.">>
                    ELSE <<"result of ", "f">>)
Answers(function_calls) ==
    <<CallsMessage(function_calls)>> \o [i \in 1..Len(function_calls) |-> Answer(function_calls[i])]

\* a call as the API delivers it: it has an id and a name
WellFormed(fn) == fn.id # None /\ fn.name # None

\* the rounds of at most MaxCalls calls to f (returns), g (raises) and h (not registered)
Rounds ==
    UNION { [1..n -> { [name |-> nm, index |-> 0, id |-> CallIds[0], arguments |-> <<>>] :
                         nm \in { <<"f">>, <<"g">>, <<"h">> } }] : n \in 1..MaxCalls }

\* get_tool_results on any round returns, with every call of the round answered in order
EveryRoundAnswered ==
    \A r \in Rounds : get_tool_results(r).ok /\ get_tool_results(r).results = Answers(r)

\* a step of stream_request that runs get_tool_results on calls the API delivered
\* appends the answers of all of them and does not raise
ToolStepAnswered ==
    /\ Len(tool_call_queue') < Len(tool_call_queue) =>
          /\ WellFormed(Head(tool_call_queue))
          /\ messages' = messages \o Answers(<<Head(tool_call_queue)>>)
          /\ req' = req
    /\ (req.pc = "streaming" /\ req'.pc # "streaming" /\ events = <<>>) =>
          LET fcs == [i \in 1..Len(partial_function_calls) |->
                         to_function_call(partial_function_calls[i])]
              function_calls == [i \in 1..Len(fcs) |-> fcs[i].call]
          IN  (function_calls # <<>> /\ \A i \in 1..Len(fcs) : fcs[i].ok /\ WellFormed(fcs[i].call)) =>
                  /\ req'.pc # "raised"
                  /\ SubSeq(messages', 1, Len(messages) + Len(function_calls) + 1)
                        = messages \o Answers(function_calls)

ChatRole == [SYSTEM |-> "system", ASSISTANT |-> "assistant", USER |-> "user", TOOL |-> "tool"]

\* str.upper() of a role as the file holds it
upper(role) ==
    CASE role = "system" -> "SYSTEM"
      [] role = "assistant" -> "ASSISTANT"
      [] role = "user" -> "USER"
      [] role = "tool" -> "TOOL"

\* a media cache is stood for by its hash; its dict form is keyed by that hash
MediaCache_to_dict(x) == [hash |-> x]
MediaCache_from_dict(d) == d.hash

FunctionCall_to_dict(fn) ==
    [name |-> fn.name, arguments |-> fn.arguments, index |-> fn.index, id |-> fn.id]

FunctionCall_from_dict(d) ==
    [name |-> d.name, index |-> d.index, id |-> d.id, arguments |-> d.arguments]

\* ChatMessage.to_dict
to_dict(msg) ==
    [role |-> msg.role,
     content |-> msg.content,
     metadata |-> msg.metadata,
     time |-> msg.time,
     images |-> [i \in 1..Len(msg.images) |-> MediaCache_to_dict(msg.images[i])],
     audio |-> [i \in 1..Len(msg.audio) |-> MediaCache_to_dict(msg.audio[i])],
     tool_calls |-> [i \in 1..Len(msg.tool_calls) |-> FunctionCall_to_dict(msg.tool_calls[i])],
     tool_call_id |-> msg.tool_call_id]

\* a from_dict that forgets the tool calls
from_dict_without_tool_calls(data) ==
    ChatMessage(ChatRole[upper(data.role)], data.content, data.metadata, data.time,
                [i \in 1..Len(data.images) |-> MediaCache_from_dict(data.images[i])],
                <<>>, <<>>, data.tool_call_id)

\* ChatMessage.from_dict: the constructor is not given the audio
from_dict(data) ==
    ChatMessage(ChatRole[upper(data.role)], data.content, data.metadata, data.time,
                [i \in 1..Len(data.images) |-> MediaCache_from_dict(data.images[i])],
                <<>>,
                [i \in 1..Len(data.tool_calls) |-> FunctionCall_from_dict(data.tool_calls[i])],
                data.tool_call_id)

\* AsyncChatbotInstance.to_dict: uuid, prefix and persona are the same for the instance
\* that saves and the one that loads, and are left out; realtime_data and
\* is_notes_visible are not written
instance_to_dict(inst) ==
    [messages |-> [i \in 1..Len(inst.messages) |-> to_dict(inst.messages[i])]]

\* ---- the messages an instance is given ----

MaxMessages == 4

AliceMetadata == <<"from_user", "alice", "channel_id", "7">>

FnCall == [name |-> <<"f">>, index |-> 0, id |-> <<"call_0">>, arguments |-> << <<"a", "1">> >>]

\* constructor arguments: role, content, metadata, message_time, images, audio,
\* tool_calls, tool_call_id
MessageArgs ==
    { <<"system", <<"b","e"," ","k","i","n","d">>, None, 0, <<>>, <<>>, <<>>, None>>,
      <<"user", <<"h","i">>, AliceMetadata, 3, <<"img1">>, <<>>, <<>>, None>>,
      <<"user", <<>>, None, 0, <<>>, <<"aud1">>, <<>>, None>>,
      <<"assistant", <<"y","o">>, None, 5, <<>>, <<>>, <<>>, None>>,
      <<"assistant", None, None, 0, <<>>, <<>>, <<FnCall>>, None>>,
      <<"tool", <<"4","2">>, None, 0, <<>>, <<>>, <<>>, <<"call_0">>>>,
      \* refused by the constructor
      <<"tool", <<"4","2">>, None, 0, <<>>, <<>>, <<>>, None>>,
      <<"assistant", <<"y","o">>, None, 0, <<>>, <<>>, <<FnCall>>, None>> }

RealtimeData == <<"status", "online">>

\* instance.add_message(ChatMessage(...)): a message the constructor refuses is not added
add_message ==
    /\ Len(instance.messages) < MaxMessages
    /\ \E a \in MessageArgs :
         LET made == ChatMessage(a[1], a[2], a[3], a[4], a[5], a[6], a[7], a[8])
         IN  /\ made.ok
             /\ instance' = [instance EXCEPT !.messages = Append(@, made.msg)]
    /\ UNCHANGED <<storage, loaded, rebuilt, construction, outsidePersist>>

\* instance.realtime_data.update(...)
update_realtime ==
    /\ instance.realtime_data = <<>>
    /\ instance' = [instance EXCEPT !.realtime_data = RealtimeData]
    /\ UNCHANGED <<storage, loaded, rebuilt, construction, outsidePersist>>

\* AsyncChatbotInstance.toggle_notes
toggle_notes ==
    /\ instance' = [instance EXCEPT !.is_notes_visible = ~@]
    /\ UNCHANGED <<storage, loaded, rebuilt, construction, outsidePersist>>

\* AsyncChatbotInstance.save: json.dumps(self.to_dict()) replaces the file. `of` is not
\* in the file: it remembers the transcript the file was written from.
save ==
    /\ storage' = << [data |-> instance_to_dict(instance), of |-> instance.messages] >>
    /\ UNCHANGED <<instance, loaded, rebuilt, construction, outsidePersist>>

\* CachedAsyncChatbotFactory.get_or_create after a restart: new_instance, then
\* load(not_found_ok=True). A missing file leaves the defaults; an assertion of a
\* ChatMessage constructor is not caught (ok = FALSE).
load ==
    /\ loaded' =
         IF storage = <<>> THEN << [ok |-> TRUE, inst |-> NewInstance, of |-> <<>>] >>
         ELSE LET dicts == storage[1].data.messages
                  made == [i \in 1..Len(dicts) |-> from_dict(dicts[i])]
              IN  << [ok |-> \A i \in 1..Len(made) : made[i].ok,
                      inst |-> [NewInstance EXCEPT
                                   !.messages = [i \in 1..Len(made) |-> made[i].msg]],
                      of |-> storage[1].of] >>
    /\ UNCHANGED <<instance, storage, rebuilt, construction, outsidePersist>>

\* the identity, hash prefix and persona the instance was constructed with
uuid        == <<"guild#1">>
hash_prefix == <<"Discord">>
persona     == [name |-> <<"pixi">>, age |-> 20, location |-> None, appearance |-> None,
                background |-> None, likes |-> <<"tea">>, dislikes |-> None, online |-> None]

\* AssistantPersona.to_dict: dataclasses.asdict, one key per field
AssistantPersona_to_dict(p) ==
    [name |-> p.name, age |-> p.age, location |-> p.location, appearance |-> p.appearance,
     background |-> p.background, likes |-> p.likes, dislikes |-> p.dislikes,
     online |-> p.online]

\* AssistantPersona.from_dict: cls(**data)
AssistantPersona_from_dict(data) ==
    [name |-> data.name, age |-> data.age, location |-> data.location,
     appearance |-> data.appearance, background |-> data.background, likes |-> data.likes,
     dislikes |-> data.dislikes, online |-> data.online]

\* AsyncChatbotInstance.to_dict, with the keys instance_to_dict leaves out
AsyncChatbotInstance_to_dict(inst) ==
    [uuid |-> uuid, prefix |-> hash_prefix, persona |-> AssistantPersona_to_dict(persona),
     messages |-> instance_to_dict(inst).messages]

ASSISTANT_PRE ==
    <<"[NOTE: I accept the guidelines of the system, I use the SEND command] [SEND: OK!] [SEND: LLLet's begin!]">>

\* AsyncChatbotInstance.from_dict: cls(uuid, persona, hash_prefix, messages=[...]).
\* __init__ hands the list to AsyncChatClient and, messages being a list and not None,
\* adds the ASSISTANT_PRE message to it (chatbot.py 106-108).
AsyncChatbotInstance_from_dict(data) ==
    LET made == [i \in 1..Len(data.messages) |-> from_dict(data.messages[i])]
        pre  == ChatMessage("assistant", ASSISTANT_PRE, None, 0, <<>>, <<>>, <<>>, None)
    IN  [ok   |-> \A i \in 1..Len(made) : made[i].ok,
         inst |-> [id |-> data.uuid, prefix |-> data.prefix,
                   persona |-> AssistantPersona_from_dict(data.persona),
                   messages |-> [i \in 1..Len(made) |-> made[i].msg] \o <<pre.msg>>]]

\* AsyncChatbotInstance.from_dict(instance.to_dict()). `of` remembers the transcript
\* the dict was made from.
from_dict_of_to_dict ==
    /\ rebuilt' = << [made |-> AsyncChatbotInstance_from_dict(AsyncChatbotInstance_to_dict(instance)),
                      of |-> instance.messages] >>
    /\ UNCHANGED <<instance, storage, loaded, construction, outsidePersist>>

InitPersist ==
    /\ instance = NewInstance /\ storage = <<>> /\ loaded = <<>>
    /\ rebuilt = <<>> /\ construction = <<>>
    /\ context = [messages |-> <<>>, system_prompt_size |-> 0, result |-> <<>>,
                  enforce_system_header |-> FALSE, request |-> <<>>,
                  rearrange_predicate |-> "None"]
    /\ ChannelIdle
    /\ given = <<>>
    /\ InterpIdle /\ StreamIdle /\ ToolsIdle

NextPersist ==
    \/ add_message
    \/ update_realtime
    \/ toggle_notes
    \/ save
    \/ load
    \/ from_dict_of_to_dict

SpecPersist == InitPersist /\ [][NextPersist]_vars

Roles(msgs) == { msgs[i].role : i \in 1..Len(msgs) }

AllRoles == {"system", "assistant", "user", "tool"}

\* C6: whenever a fresh instance has loaded a file that was saved from a transcript
\* holding a message of every role, load() succeeded, the loaded transcript has the
\* saved transcript's messages in the same order with the same role, content,
\* metadata, tool_calls and tool_call_id, and the loaded instance's realtime_data and
\* is_notes_visible are the defaults.
C6_SaveLoadRoundTrip ==
    (loaded # <<>> /\ Roles(loaded[1].of) = AllRoles) =>
        LET got == loaded[1].inst.messages
            was == loaded[1].of
        IN  /\ loaded[1].ok
            /\ Len(got) = Len(was)
            /\ \A i \in 1..Len(was) :
                 /\ got[i].role = was[i].role
                 /\ got[i].content = was[i].content
                 /\ got[i].metadata = was[i].metadata
                 /\ got[i].tool_calls = was[i].tool_calls
                 /\ got[i].tool_call_id = was[i].tool_call_id
            /\ loaded[1].inst.realtime_data = <<>>
            /\ loaded[1].inst.is_notes_visible = FALSE

\* a transcript of all four roles, one with tool calls, one with metadata, was saved by
\* an instance with realtime data and visible notes, and loaded
C6_Witness ==
    /\ loaded # <<>>
    /\ Roles(loaded[1].of) = AllRoles
    /\ \E i \in 1..Len(loaded[1].of) : loaded[1].of[i].tool_calls # <<>>
    /\ \E i \in 1..Len(loaded[1].of) : loaded[1].of[i].metadata = AliceMetadata
    /\ instance.messages = loaded[1].of
    /\ instance.realtime_data = RealtimeData
    /\ instance.is_notes_visible

(***************************************************************************)
(* The context budget: AsyncChatClient.enforce_approximate_context_limit   *)
(*                                                                         *)
(* A content of tens of thousands of characters is stood for by its        *)
(* length and by whether it starts with the cut-off marker.                *)
(***************************************************************************)

MAX_CONTEXT_LENGTH == 8000

\* len("(This message was cut off due to length limitations)\n\n")
CutOffMarkerLen == 54

\* len(role)
RoleLen(role) ==
    CASE role = "system" -> 6 [] role = "assistant" -> 9 [] role = "user" -> 4 [] role = "tool" -> 4

\* len(role) + len(content or "") + 1024 * len(audio) + 1024 * len(images)
message_size(message) ==
    RoleLen(message.role) + message.content.len + 1024 * message.audio + 1024 * message.images

\* request_size after the messages before position i (1-based) have been added
RECURSIVE request_size_before(_, _, _)
request_size_before(msgs, system_prompt_size, i) ==
    IF i = 1 THEN system_prompt_size
    ELSE request_size_before(msgs, system_prompt_size, i - 1) + message_size(msgs[i - 1])

\* the for loop: the 0-based index at which it breaks, -1 for None (the else branch)
cutoff_index_of(msgs, system_prompt_size) ==
    LET over == { i \in 1..Len(msgs) :
                    request_size_before(msgs, system_prompt_size, i + 1) > MAX_CONTEXT_LENGTH * 4 }
    IN  IF over = {} THEN -1
        ELSE (CHOOSE i \in over : \A j \in over : i <= j) - 1

\* text[:n] of a text of length len
SliceTo(len, n) ==
    IF n >= 0 THEN (IF n < len THEN n ELSE len)
    ELSE (IF len + n > 0 THEN len + n ELSE 0)

\* messages[-k:]
LastOf(msgs, k) ==
    IF k = 0 \/ k >= Len(msgs) THEN msgs
    ELSE SubSeq(msgs, Len(msgs) - k + 1, Len(msgs))

\* "(This message was cut off ...)" + content[:request_size - system_prompt_size - 200]
cut_off(message, request_size, system_prompt_size) ==
    [message EXCEPT !.content =
        [len |-> CutOffMarkerLen + SliceTo(@.len, request_size - system_prompt_size - 200),
         cut |-> TRUE]]

\* enforce_approximate_context_limit: `if cutoff_index:` is the truth value of the index
enforce_approximate_context_limit(msgs, system_prompt_size) ==
    LET cutoff_index == cutoff_index_of(msgs, system_prompt_size)
        request_size == request_size_before(msgs, system_prompt_size, cutoff_index + 2)
    IN  IF cutoff_index # -1 /\ cutoff_index # 0
        THEN LET marked == IF cutoff_index = 0
                           THEN [msgs EXCEPT ![1] = cut_off(@, request_size, system_prompt_size)]
                           ELSE msgs
             IN  LastOf(marked, cutoff_index - 1)
        ELSE msgs

\* ---- the transcripts the budget is enforced on ----

MaxContextMessages == 3

Sized(role, len, images, audio) ==
    [role |-> role, content |-> [len |-> len, cut |-> FALSE], images |-> images, audio |-> audio]

ContextMessages ==
    { Sized("user", 10, 0, 0),
      Sized("assistant", 20000, 0, 0),
      Sized("user", 40000, 0, 0),
      Sized("user", 10, 20, 1) }

SystemPromptSizes == {0, 2000}

ContextTranscripts ==
    UNION { [1..n -> ContextMessages] : n \in 0..MaxContextMessages }

\* self.rearrange_predicate: None after __init__, rearrage_predicate (the message is of
\* the current channel) after pixi_resp_retry has set it
RearrangePredicates == { "None", "same_channel" }

\* rearrage_predicate(msg): the channel_id of msg's metadata is the current message's;
\* the small user messages without media stand for the current channel's, the user
\* messages with media for another channel's, assistant messages have no metadata
rearrage_predicate(msg) ==
    msg.role = "user" /\ msg.images = 0 /\ msg.audio = 0

\* the default of get_rearranged_messages' parameter n
DefaultN == 5

RECURSIVE SelectAt(_, _, _)
\* the messages at the positions of `at`, from position i on, in their order
SelectAt(msgs, at, i) ==
    IF i > Len(msgs) THEN <<>>
    ELSE (IF i \in at THEN <<msgs[i]>> ELSE <<>>) \o SelectAt(msgs, at, i + 1)

\* get_rearranged_messages: walking from the newest message, the first n that match are
\* selected; the result is the others in their order, then the selected in their order
get_rearranged_messages(msgs, n) ==
    LET matching == { i \in 1..Len(msgs) : rearrage_predicate(msgs[i]) }
        selected == { i \in matching : Cardinality({ j \in matching : j > i }) < n }
    IN  SelectAt(msgs, (1..Len(msgs)) \ selected, 1) \o SelectAt(msgs, selected, 1)

InitContext ==
    /\ \E msgs \in ContextTranscripts, size \in SystemPromptSizes, header \in BOOLEAN,
          predicate \in RearrangePredicates :
          context = [messages |-> msgs, system_prompt_size |-> size, result |-> <<>>,
                     enforce_system_header |-> header, request |-> <<>>,
                     rearrange_predicate |-> predicate]
    /\ instance = NewInstance /\ storage = <<>> /\ loaded = <<>>
    /\ rebuilt = <<>> /\ construction = <<>>
    /\ ChannelIdle
    /\ given = <<>>
    /\ InterpIdle /\ StreamIdle /\ ToolsIdle

\* ChatMessage.to_openai_dict: the role, the content and, for a user message, a list of
\* parts: one text part, then one part per image and per audio
to_openai_dict(message) ==
    [role |-> message.role, content |-> message.content,
     parts |-> IF message.role = "user" THEN 1 + message.images + message.audio ELSE 0]

\* list.insert(index, x) with a 0-based index inside the list
insert(list, index, x) ==
    SubSeq(list, 1, index) \o <<x>> \o SubSeq(list, index + 1, Len(list))

\* the insertion that puts the system message behind the last user message
insert_index_after_user(msgs, enforce_system_header) ==
    LET users == { i \in 1..Len(msgs) : msgs[i].role = "user" }
    IN  IF enforce_system_header \/ users = {} THEN 0
        ELSE (CHOOSE i \in users : \A j \in users : j <= i)

\* lines 406-411: 0, or the 0-based index of the last user message of `msgs`
insert_index_of(msgs, enforce_system_header) ==
    LET users == { i \in 1..Len(msgs) : msgs[i].role = "user" }
    IN  IF enforce_system_header \/ users = {} THEN 0
        ELSE (CHOOSE i \in users : \A j \in users : j <= i) - 1

\* lines 397-413: the request's messages made of the messages that fit
openai_messages_of(msgs, system_prompt_size, enforce_system_header) ==
    LET openai_messages == [i \in 1..Len(msgs) |-> to_openai_dict(msgs[i])]
        system_message ==
            to_openai_dict([role |-> "system",
                            content |-> [len |-> system_prompt_size, cut |-> FALSE],
                            images |-> 0, audio |-> 0])
    IN  IF system_prompt_size # 0
        THEN insert(openai_messages, insert_index_of(msgs, enforce_system_header),
                    system_message)
        ELSE openai_messages

\* get_openai_messages_dict: an empty transcript returns list() before the budget is
\* looked at; otherwise enforce_approximate_context_limit(self.messages.copy()), whose
\* result is turned into the request's messages with the system message inserted
enforce ==
    /\ context.result = <<>>
    /\ LET messages_that_fit ==
               IF Len(context.messages) = 0 THEN <<>>
               ELSE enforce_approximate_context_limit(context.messages,
                                                      context.system_prompt_size)
       IN  context' = [context EXCEPT
               !.result = <<messages_that_fit>>,
               !.request = IF Len(context.messages) = 0 THEN <<>>
                           ELSE openai_messages_of(messages_that_fit,
                                                   context.system_prompt_size,
                                                   context.enforce_system_header)]
    /\ UNCHANGED outsideContext

NextContext == enforce

SpecContext == InitContext /\ [][NextContext]_vars

\* the first message alone is over the budget
OldestAloneOverBudget ==
    /\ context.messages # <<>>
    /\ context.system_prompt_size + message_size(context.messages[1]) > MAX_CONTEXT_LENGTH * 4

\* C7: when the oldest message alone exceeds the budget, the result keeps it with its
\* content cut short and starting with the cut-off marker; and the result of a non-empty
\* transcript is never empty.
C7_OldestMessageKeptCutOff ==
    context.result # <<>> =>
        /\ context.messages # <<>> => context.result[1] # <<>>
        /\ OldestAloneOverBudget =>
             \E i \in 1..Len(context.result[1]) :
                /\ context.result[1][i].role = context.messages[1].role
                /\ context.result[1][i].content.cut
                /\ context.result[1][i].content.len < context.messages[1].content.len

(***************************************************************************)
(* One channel of one instance: PixiClient.pixi_resp_retry / pixi_resp and *)
(* AsyncChatbotInstance.concurrent_channel_stream_call / stream_call.      *)
(*                                                                         *)
(* asyncio runs one coroutine at a time and switches only at an await, so  *)
(* an action is the code between two awaits. A handler that goes on        *)
(* without awaiting holds the event loop: while a handler is at one of the *)
(* SyncPcs nothing else runs.                                              *)
(***************************************************************************)

\* pixi_resp_retry(chat_message, num_retry=3)
num_retry == 3

\* inbound messages for the channel
MaxArrivals == 3

\* generations whose output holds an unknown command
MaxFailures == 1

Decimal == <<"1", "2", "3", "4", "5", "6", "7", "8", "9", "10", "11", "12", "13", "14", "15", "16">>

ChannelMetadata == <<"channel_id", "7">>

\* the ChatMessage on_message builds for the h-th inbound message
UserMessage(h) ==
    ChatMessage("user", <<"m", Decimal[h]>>, ChannelMetadata, 0, <<>>, <<>>, <<>>, None).msg

\* the tool call the completion of task t asks for
TaskCall(t) ==
    [name |-> <<"f">>, index |-> 0, id |-> <<"call_", Decimal[t]>>, arguments |-> <<>>]

\* the content of the completion of task t
Response(t) == <<"r", Decimal[t]>>

\* what a completion makes the generation do, in order: run a tool call ("tool"),
\* dispatch a known command ("command"), meet an unknown command ("unknown":
\* NotImplementedError), or lose the connection to the API ("error": the exception the
\* API client raises inside stream_request); after the last item the response is stored
ToolThenCommand == <<"tool", "command">>
UnknownCommand == <<"tool", "unknown">>
TransportError == <<"error">>
ResponseOnly == <<>>

\* the channels of one guild: get_identifier_from_message gives every message of a
\* guild the identifier of the guild, get_message_channel_id the id of its channel
Channels == {1, 2}

SameChannel == [h \in 1..MaxArrivals |-> 1]
TwoChannels == [h \in 1..MaxArrivals |-> IF h = 1 THEN 1 ELSE 2]

\* the runs explored: how many messages arrive for the instance and in which channels,
\* how many completions fail and how, and what the other completions hold
Scenarios ==
    { [arrivals |-> MaxArrivals, failures |-> 0, script |-> ToolThenCommand,
       failing |-> UnknownCommand, channels |-> SameChannel],
      [arrivals |-> MaxArrivals - 1, failures |-> MaxFailures, script |-> ResponseOnly,
       failing |-> UnknownCommand, channels |-> SameChannel],
      [arrivals |-> 1, failures |-> num_retry, script |-> ToolThenCommand,
       failing |-> UnknownCommand, channels |-> SameChannel],
      [arrivals |-> 1, failures |-> num_retry, script |-> ToolThenCommand,
       failing |-> TransportError, channels |-> SameChannel],
      [arrivals |-> MaxArrivals - 1, failures |-> 0, script |-> ToolThenCommand,
       failing |-> UnknownCommand, channels |-> TwoChannels],
      [arrivals |-> MaxArrivals - 1, failures |-> MaxFailures, script |-> ToolThenCommand,
       failing |-> UnknownCommand, channels |-> TwoChannels] }

\* self.reflection_api.get_message_channel_id(message) for the h-th inbound message
get_message_channel_id(h) == given[1].channels[h]

Failing(script) == \E i \in 1..Len(script) : script[i] \in {"unknown", "error"}

\* an `except Exception:` clause that sends the notice and then lets the exception go
\* on to pixi_resp_retry
except_Exception_sends_and_raises == [notice |-> TRUE, raises |-> TRUE]

\* pixi_resp's `except Exception:` clause (client.py 521-523). Its first statement
\* formats instance.uuid, an attribute AsyncChatbotInstance does not have (it has id),
\* so AttributeError leaves the clause, and pixi_resp, before send_reply is reached;
\* Messages has no member UNKNOWN_ERROR either.
except_Exception == [notice |-> FALSE, raises |-> TRUE]

\* the text of the notice the clause would send
UNKNOWN_ERROR == <<"notice">>

NewTask(h, script) ==
    [owner |-> h, state |-> "created", must_cancel |-> FALSE, cancelling |-> FALSE,
     script |-> script, pos |-> 0, target |-> 0]

NewHandler == [pc |-> "idle", attempt |-> 0, checkpoint |-> 0, task |-> 0, cancel_task |-> 0]

\* the tasks the handlers can create in all
TaskIds == 1..(MaxArrivals * num_retry)

\* Task.done()
Finished(t) == tasks[t].state \in {"done", "cancelled", "failed"}

InList(t) ==
    \E ch \in Channels :
        \E i \in 1..Len(channel_active_tasks[ch]) : channel_active_tasks[ch][i] = t

\* list.remove(t)
Remove(list, t) == SelectSeq(list, LAMBDA x : x # t)

\* a handler is running code that does not await
SyncPcs == {"cancel_loop", "failed", "spinning"}

busy == \E h \in 1..Len(handlers) : handlers[h].pc \in SyncPcs

\* self.client.messages
transcript == lists[messages_ref]

InitChannel ==
    /\ \E scenario \in Scenarios : given = <<scenario>>
    /\ lists = << <<>> >> /\ messages_ref = 1
    /\ tasks = <<>> /\ channel_active_tasks = [ch \in Channels |-> <<>>]
    /\ handlers = [h \in 1..given[1].arrivals |-> NewHandler]
    /\ effects = <<>>
    /\ factory = <<>>
    /\ storage = <<>>
    /\ instance = NewInstance /\ loaded = <<>> /\ rebuilt = <<>> /\ construction = <<>>
    /\ context = [messages |-> <<>>, system_prompt_size |-> 0, result |-> <<>>,
                  enforce_system_header |-> FALSE, request |-> <<>>,
                  rearrange_predicate |-> "None"]
    /\ InterpIdle /\ StreamIdle /\ ToolsIdle

\* One pass of `for i in range(num_retry)` up to the cancel loop, from the list object
\* ref: messages_checkpoint = get_messages().copy(); pixi_resp: add_message(chat_message);
\* concurrent_channel_stream_call: create_task, append, add_done_callback.
begin_attempt(h, ref, attempt) ==
    /\ \E script \in {given[1].script, given[1].failing} :
         /\ Failing(script) =>
               Cardinality({t \in 1..Len(tasks) : Failing(tasks[t].script)}) < given[1].failures
         /\ tasks' = Append(tasks, NewTask(h, script))
    /\ lists' = [Append(lists, lists[ref]) EXCEPT ![ref] = Append(@, UserMessage(h))]
    /\ messages_ref' = ref
    /\ channel_active_tasks' = [channel_active_tasks EXCEPT
          ![get_message_channel_id(h)] = Append(@, Len(tasks) + 1)]
    /\ handlers' = [handlers EXCEPT ![h] =
                       [pc |-> "cancel_loop", attempt |-> attempt,
                        checkpoint |-> Len(lists) + 1, task |-> Len(tasks) + 1,
                        cancel_task |-> 0]]

\* on_message -> pixi_resp_retry for the h-th inbound message: the first pass of the
\* retry loop. Messages are numbered in the order their handlers get here.
on_message(h) ==
    /\ ~busy
    /\ h <= Len(handlers)
    /\ handlers[h].pc = "idle"
    /\ IF h = 1 THEN TRUE ELSE handlers[h - 1].pc # "idle"
    /\ begin_attempt(h, messages_ref, 0)
    /\ UNCHANGED <<effects, storage, outsideChannel>>

\* Task.cancel(): a finished task refuses; otherwise CancelledError is thrown into the
\* task at its next step
cancel(t) ==
    IF Finished(t) THEN tasks
    ELSE [tasks EXCEPT ![t] = [@ EXCEPT !.must_cancel = TRUE, !.cancelling = TRUE]]

\* where `await task` leaves the awaiting handler once the task is finished: a task that
\* returned gives its result; a cancelled task raises CancelledError, which no
\* `except Exception` catches (the handler ends); a failed task raises its exception,
\* pixi_resp's handler for it raises AttributeError (instance.uuid) and pixi_resp_retry
\* takes the attempt as failed
after_await(t, returned) ==
    CASE tasks[t].state = "done" -> returned
      [] tasks[t].state = "cancelled" -> "dead"
      [] tasks[t].state = "failed" -> IF except_Exception.raises THEN "failed" ELSE "returned"

\* what the `except Exception:` clause sends when handler h finds task t failed
notices(h, t) ==
    IF tasks[t].state = "failed" /\ except_Exception.notice
    THEN <<[task |-> handlers[h].task, command |-> UNKNOWN_ERROR]>>
    ELSE <<>>

\* `while len(self.channel_active_tasks[channel_id]) > 1:` with
\* `cancel_task = ...[0]; cancel_task.cancel(); await cancel_task`. Awaiting a task that
\* has finished does not suspend: if it returned, the loop goes round again with the
\* list unchanged, for ever.
cancel_loop(h) ==
    /\ h <= Len(handlers)
    /\ handlers[h].pc = "cancel_loop"
    /\ IF Len(channel_active_tasks[get_message_channel_id(h)]) > 1
       THEN LET cancel_task == channel_active_tasks[get_message_channel_id(h)][1]
            IN  /\ tasks' = cancel(cancel_task)
                /\ handlers' = [handlers EXCEPT ![h] = [@ EXCEPT
                      !.cancel_task = cancel_task,
                      !.pc = IF Finished(cancel_task)
                             THEN after_await(cancel_task, "spinning")
                             ELSE "await_cancel"]]
                /\ effects' = effects \o
                       (IF Finished(cancel_task) THEN notices(h, cancel_task) ELSE <<>>)
       ELSE /\ handlers' = [handlers EXCEPT ![h] = [@ EXCEPT !.pc = "polling"]]
            /\ UNCHANGED <<tasks, effects>>
    /\ UNCHANGED <<lists, messages_ref, channel_active_tasks, storage, outsideChannel>>

\* the handler suspended at `await cancel_task` is resumed: the task's done-callbacks run
\* in the order they were added, the removal from the list first
resume_cancel_loop(h) ==
    /\ h <= Len(handlers)
    /\ h <= Len(handlers)
    /\ ~busy
    /\ handlers[h].pc = "await_cancel"
    /\ Finished(handlers[h].cancel_task)
    /\ ~InList(handlers[h].cancel_task)
    /\ handlers' = [handlers EXCEPT ![h] = [@ EXCEPT
          !.pc = after_await(handlers[h].cancel_task, "cancel_loop")]]
    /\ effects' = effects \o notices(h, handlers[h].cancel_task)
    /\ UNCHANGED <<lists, messages_ref, tasks, channel_active_tasks, storage, outsideChannel>>

\* pixi_resp after concurrent_channel_stream_call returned: `while not task.done()`
\* (typing status, sleep), `await task`, responded = True; pixi_resp_retry: instance.save()
task_done(h) ==
    /\ h <= Len(handlers)
    /\ ~busy
    /\ handlers[h].pc = "polling"
    /\ Finished(handlers[h].task)
    /\ handlers' = [handlers EXCEPT ![h] = [@ EXCEPT
          !.pc = after_await(handlers[h].task, "returned")]]
    /\ storage' = IF tasks[handlers[h].task].state = "done"
                  THEN << [data |-> instance_to_dict([messages |-> transcript]),
                           of |-> transcript] >>
                  ELSE storage
    /\ effects' = effects \o notices(h, handlers[h].task)
    /\ UNCHANGED <<lists, messages_ref, tasks, channel_active_tasks, outsideChannel>>

\* pixi_resp_retry after a failed attempt: instance.set_messages(messages_checkpoint),
\* then the next pass of the loop, or the end of the function after num_retry passes
retry(h) ==
    /\ h <= Len(handlers)
    /\ handlers[h].pc = "failed"
    /\ IF handlers[h].attempt + 1 < num_retry
       THEN begin_attempt(h, handlers[h].checkpoint, handlers[h].attempt + 1)
       ELSE /\ messages_ref' = handlers[h].checkpoint
            /\ handlers' = [handlers EXCEPT ![h] = [@ EXCEPT !.pc = "gave_up"]]
            /\ UNCHANGED <<lists, tasks, channel_active_tasks>>
    /\ UNCHANGED <<effects, storage, outsideChannel>>

\* the task's next stream item, "end" after the last
next_item(t) ==
    IF tasks[t].pos < Len(tasks[t].script) THEN tasks[t].script[tasks[t].pos + 1] ELSE "end"

\* the first step of a task. A task cancelled before it has started never enters
\* stream_call_task's try block: CancelledError is thrown at the coroutine's first line
\* and the task ends cancelled. Otherwise stream_call runs up to the request's first await.
task_start(t) ==
    /\ ~busy
    /\ t <= Len(tasks)
    /\ tasks[t].state = "created"
    /\ tasks' = [tasks EXCEPT ![t] = [@ EXCEPT
          !.state = IF tasks[t].must_cancel THEN "cancelled" ELSE "running",
          !.must_cancel = FALSE]]
    /\ UNCHANGED <<lists, messages_ref, channel_active_tasks, handlers, effects, storage,
                   outsideChannel>>

\* the step of a running task after cancel(): CancelledError is raised at the await the
\* task is suspended at, and stream_call_task catches it, logs and returns
task_cancelled(t) ==
    /\ ~busy
    /\ t <= Len(tasks)
    /\ tasks[t].state = "running"
    /\ tasks[t].must_cancel
    /\ tasks' = [tasks EXCEPT ![t] = [@ EXCEPT
          !.state = "done", !.must_cancel = FALSE, !.target = 0]]
    /\ UNCHANGED <<lists, messages_ref, channel_active_tasks, handlers, effects, storage,
                   outsideChannel>>

\* `self.messages += await self.get_tool_results(...)`: the list object is read first,
\* then the tool is awaited
tool_begin(t) ==
    /\ ~busy
    /\ t <= Len(tasks)
    /\ tasks[t].state = "running" /\ ~tasks[t].must_cancel
    /\ next_item(t) = "tool" /\ tasks[t].target = 0
    /\ tasks' = [tasks EXCEPT ![t] = [@ EXCEPT !.target = messages_ref]]
    /\ UNCHANGED <<lists, messages_ref, channel_active_tasks, handlers, effects, storage,
                   outsideChannel>>

\* ... then the list object read before the await is extended in place and assigned
\* back to self.messages
tool_end(t) ==
    /\ ~busy
    /\ t <= Len(tasks)
    /\ tasks[t].state = "running" /\ ~tasks[t].must_cancel
    /\ next_item(t) = "tool" /\ tasks[t].target # 0
    /\ lists' = [lists EXCEPT ![tasks[t].target] = @ \o get_tool_results(<<TaskCall(t)>>).results]
    /\ messages_ref' = tasks[t].target
    /\ tasks' = [tasks EXCEPT ![t] = [@ EXCEPT !.target = 0, !.pos = @ + 1]]
    /\ UNCHANGED <<channel_active_tasks, handlers, effects, storage, outsideChannel>>

\* stream_commands has consumed a command and awaits its handler
dispatch_command(t) ==
    /\ ~busy
    /\ t <= Len(tasks)
    /\ tasks[t].state = "running" /\ ~tasks[t].must_cancel
    /\ next_item(t) = "command"
    /\ effects' = Append(effects, [task |-> t, command |-> send])
    /\ tasks' = [tasks EXCEPT ![t] = [@ EXCEPT !.pos = @ + 1]]
    /\ UNCHANGED <<lists, messages_ref, channel_active_tasks, handlers, storage, outsideChannel>>

\* stream_commands raises NotImplementedError, which stream_call_task does not catch
unknown_command(t) ==
    /\ ~busy
    /\ t <= Len(tasks)
    /\ tasks[t].state = "running" /\ ~tasks[t].must_cancel
    /\ next_item(t) = "unknown"
    /\ tasks' = [tasks EXCEPT ![t] = [@ EXCEPT !.state = "failed"]]
    /\ UNCHANGED <<lists, messages_ref, channel_active_tasks, handlers, effects, storage,
                   outsideChannel>>

\* the completion API raises inside stream_request (a connection error), which nothing
\* between the request and the task catches
request_error(t) ==
    /\ ~busy
    /\ t <= Len(tasks)
    /\ tasks[t].state = "running" /\ ~tasks[t].must_cancel
    /\ next_item(t) = "error"
    /\ tasks' = [tasks EXCEPT ![t] = [@ EXCEPT !.state = "failed"]]
    /\ UNCHANGED <<lists, messages_ref, channel_active_tasks, handlers, effects, storage,
                   outsideChannel>>

\* the stream ends: stream_request appends the response to self.messages and
\* stream_call returns
end_of_response(t) ==
    /\ ~busy
    /\ t <= Len(tasks)
    /\ tasks[t].state = "running" /\ ~tasks[t].must_cancel
    /\ next_item(t) = "end"
    /\ lists' = [lists EXCEPT ![messages_ref] = Append(@,
          ChatMessage("assistant", Response(t), None, 0, <<>>, <<>>, <<>>, None).msg)]
    /\ tasks' = [tasks EXCEPT ![t] = [@ EXCEPT !.state = "done"]]
    /\ UNCHANGED <<messages_ref, channel_active_tasks, handlers, effects, storage,
                   outsideChannel>>

\* task.add_done_callback(lambda t: self.channel_active_tasks[channel_id].remove(t))
done_callback(t) ==
    /\ ~busy
    /\ t <= Len(tasks)
    /\ Finished(t) /\ InList(t)
    /\ channel_active_tasks' =
          [ch \in Channels |-> Remove(channel_active_tasks[ch], t)]
    /\ UNCHANGED <<lists, messages_ref, tasks, handlers, effects, storage, outsideChannel>>

NextChannel ==
    \/ \E h \in 1..MaxArrivals : on_message(h)
    \/ \E h \in 1..MaxArrivals : cancel_loop(h)
    \/ \E h \in 1..MaxArrivals : resume_cancel_loop(h)
    \/ \E h \in 1..MaxArrivals : task_done(h)
    \/ \E h \in 1..MaxArrivals : retry(h)
    \/ \E t \in TaskIds : task_start(t)
    \/ \E t \in TaskIds : task_cancelled(t)
    \/ \E t \in TaskIds : tool_begin(t)
    \/ \E t \in TaskIds : tool_end(t)
    \/ \E t \in TaskIds : dispatch_command(t)
    \/ \E t \in TaskIds : unknown_command(t)
    \/ \E t \in TaskIds : request_error(t)
    \/ \E t \in TaskIds : end_of_response(t)
    \/ \E t \in TaskIds : done_callback(t)

SpecChannel == InitChannel /\ [][NextChannel]_vars

\* the event loop runs a callback whenever one is ready
SpecChannelFair == InitChannel /\ [][NextChannel]_vars /\ WF_vars(NextChannel)

\* message m is one the attempt behind task t adds to the transcript: the inbound user
\* message, the tool call and its result, the response
AddedByAttempt(t, m) ==
    \/ m.role = "user" /\ m.content = UserMessage(tasks[t].owner).content
    \/ m.role = "assistant" /\ m.tool_calls = <<TaskCall(t)>>
    \/ m.role = "tool" /\ m.tool_call_id = TaskCall(t).id
    \/ m.role = "assistant" /\ m.content = Response(t)

\* task n is a generation for a later message than task c's, and has run to its end
\* without being cancelled
FinishedAfter(c, n) ==
    /\ tasks[n].owner > tasks[c].owner
    /\ tasks[n].state = "done"
    /\ ~tasks[n].cancelling

\* C8: once a generation has been cancelled for a newer message and the newer message's
\* generation has finished, the transcript holds no message the cancelled attempt added
\* after its checkpoint.
C8_CancelledAttemptDiscarded ==
    \A c \in 1..Len(tasks), n \in 1..Len(tasks) :
        (tasks[c].cancelling /\ FinishedAfter(c, n)) =>
            \A i \in 1..Len(transcript) : ~AddedByAttempt(c, transcript[i])

\* some handler is between entering and leaving concurrent_channel_stream_call
InCancelLoop == \E h \in 1..Len(handlers) : handlers[h].pc \in {"cancel_loop", "await_cancel"}

\* ... for a message of channel ch
InCancelLoopOf(ch) ==
    \E h \in 1..Len(handlers) :
        /\ handlers[h].pc \in {"cancel_loop", "await_cancel"}
        /\ get_message_channel_id(h) = ch

\* C9: the channel's task list never holds more than two tasks, holds two only while a
\* handler is cancelling the older one, and holds at most one whenever
\* concurrent_channel_stream_call returns.
C9_AtMostOneTaskPerChannel ==
    /\ [](\A ch \in Channels :
             /\ Len(channel_active_tasks[ch]) <= 2
             /\ Len(channel_active_tasks[ch]) = 2 => InCancelLoopOf(ch))
    /\ [][\A h \in 1..Len(handlers) :
            (handlers[h].pc = "cancel_loop" /\ handlers'[h].pc = "polling")
                => Len(channel_active_tasks'[get_message_channel_id(h)]) <= 1]_vars

\* the commands task t has dispatched
DispatchedBy(t, log) == SelectSeq(log, LAMBDA e : e.task = t)

\* a task that has been cancelled is where it was: nothing more consumed, no tool call
\* completed, no command dispatched
CancelledTaskStops ==
    \A t \in 1..Len(tasks) :
        tasks[t].cancelling =>
            /\ tasks'[t].pos = tasks[t].pos
            /\ DispatchedBy(t, effects') = DispatchedBy(t, effects)

\* what was dispatched stays dispatched
EffectsStay == Len(effects') >= Len(effects) /\ SubSeq(effects', 1, Len(effects)) = effects

\* the tasks of the channel that are running and have not been cancelled
LeftActive ==
    { t \in 1..Len(tasks) : InList(t) /\ ~Finished(t) /\ ~tasks[t].cancelling }

\* the number of the newest message that has arrived
Newest ==
    LET arrived == { h \in 1..Len(handlers) : handlers[h].pc # "idle" }
    IN  IF arrived = {} THEN 0 ELSE CHOOSE h \in arrived : \A g \in arrived : g <= h

\* once a task has been cancelled and no handler is in the cancel loop any more, the
\* only task left active is the newest message's
NewestLeftActive ==
    ((\E c \in 1..Len(tasks) : tasks[c].cancelling /\ Finished(c)) /\ ~busy /\ ~InCancelLoop)
        => \A t \in LeftActive : tasks[t].owner = Newest

\* C10: a task cancelled for a newer message consumes nothing more and dispatches no
\* further command; what it dispatched before stays; and the task left active for the
\* channel is the one of the newest message.
C10_CancelStopsOlderTask ==
    /\ [][CancelledTaskStops /\ EffectsStay]_vars
    /\ []NewestLeftActive

\* the attempts (tasks) made for the h-th inbound message
AttemptsOf(h) == { t \in 1..Len(tasks) : tasks[t].owner = h }

AtMostThreeGuardedAndOneFinal ==
    \A h \in 1..Len(handlers) : Cardinality(AttemptsOf(h)) <= num_retry + 1

\* a further attempt for a message is made only by a handler whose attempt failed
RetryOnlyAfterFailure ==
    \A h \in 1..Len(handlers) :
        (Len(tasks') > Len(tasks) /\ tasks'[Len(tasks')].owner = h /\ AttemptsOf(h) # {}) =>
            handlers[h].pc = "failed"

\* a handler that has returned after num_retry failed attempts has made the final one
FinalAttemptMade ==
    \A h \in 1..Len(handlers) :
        handlers[h].pc = "gave_up" => Cardinality(AttemptsOf(h)) = num_retry + 1

\* C14: for one inbound message at most num_retry + 1 attempts are made, a further
\* attempt is made only after a failed one (so none after a successful one), and when
\* the num_retry guarded attempts have all failed the handling does not end before a
\* final attempt has been made.
C14_BoundedRetryThenFinalAttempt ==
    /\ [](AtMostThreeGuardedAndOneFinal /\ FinalAttemptMade)
    /\ [][RetryOnlyAfterFailure]_vars

\* message m is a tool-call, tool-result or response message appended by task t
AppendedByAttempt(t, m) ==
    \/ m.role = "assistant" /\ m.tool_calls = <<TaskCall(t)>>
    \/ m.role = "tool" /\ m.tool_call_id = TaskCall(t).id
    \/ m.role = "assistant" /\ m.content = Response(t)

Holds(list, t) == \E i \in 1..Len(list) : AppendedByAttempt(t, list[i])

\* the step that ends a failed attempt of handler h leaves the transcript equal to the
\* snapshot of that attempt (with the inbound message added again when the step goes on
\* to the next attempt), and the snapshot holds nothing of the failed attempt
RolledBack ==
    \A h \in 1..Len(handlers) :
        (handlers[h].pc = "failed" /\ handlers'[h].pc # "failed") =>
            LET snapshot == lists[handlers[h].checkpoint]
            IN  /\ ~Holds(snapshot, handlers[h].task)
                /\ \A i \in 1..Len(snapshot) : snapshot[i] # UserMessage(h)
                /\ lists'[messages_ref'] = IF handlers'[h].pc = "gave_up" THEN snapshot
                                           ELSE Append(snapshot, UserMessage(h))

\* the save file holds no message appended by an attempt that failed
FailedAttemptNotPersisted ==
    \A t \in 1..Len(tasks) :
        (storage # <<>> /\ tasks[t].state = "failed") => ~Holds(storage[1].of, t)

\* C15: when an attempt fails, the transcript is put back to the snapshot taken before
\* the attempt, which holds neither the inbound message nor anything the attempt
\* appended, and the save file never holds a message appended by a failed attempt.
C15_FailedAttemptRolledBack ==
    /\ [][RolledBack]_vars
    /\ []FailedAttemptNotPersisted

\* C16: when every attempt for a message has failed on a transport error and the
\* handling has ended, the fixed-text failure notice has been sent for that message
\* and the transcript equals the last checkpoint, without the inbound message.
C16_NoticeAfterRetriesExhausted ==
    \A h \in 1..Len(handlers) :
        (given[1].failing = TransportError /\ handlers[h].pc = "gave_up") =>
            /\ \E i \in 1..Len(effects) :
                  effects[i].command = UNKNOWN_ERROR /\ tasks[effects[i].task].owner = h
            /\ transcript = lists[handlers[h].checkpoint]
            /\ \A i \in 1..Len(transcript) : transcript[i] # UserMessage(h)

\* every handler has ended and every task has finished
Settled ==
    /\ \A h \in 1..Len(handlers) : handlers[h].pc \in {"returned", "gave_up", "dead"}
    /\ \A t \in 1..Len(tasks) : Finished(t) /\ ~InList(t)

Identifiers == {"u1", "u2"}

MaxFactoryCalls == 3

\* the persona the factory constructs every instance with (self.kwargs), and the one a
\* save file written under an earlier configuration holds
ConstructedPersona == <<"pixi">>
SavedPersona       == <<"pixi of last year">>

\* what a save file holds, as json.load gives it
GoodDict ==
    to_dict(ChatMessage("user", <<"h", "i">>, AliceMetadata, 3, <<>>, <<>>, <<>>, None).msg)

\* a message the ChatMessage constructor refuses: a tool message with metadata and
\* without tool_call_id
RefusedDict == [GoodDict EXCEPT !.role = "tool"]

Missing      == [kind |-> "missing",  persona |-> None, messages |-> <<>>]
\* a file cut short while it was written: json.load raises JSONDecodeError
Truncated    == [kind |-> "not_json", persona |-> None, messages |-> <<>>]
Saved        == [kind |-> "json", persona |-> SavedPersona, messages |-> <<GoodDict>>]
\* JSON without the "persona" key: data.get("persona") is None
NoPersona    == [kind |-> "json", persona |-> None, messages |-> <<GoodDict>>]
SavedRefused == [kind |-> "json", persona |-> SavedPersona,
                 messages |-> <<GoodDict, RefusedDict>>]

FileContents == {Missing, Truncated, Saved, NoPersona, SavedRefused}

\* AsyncChatbotInstance.__init__ as new_instance calls it: messages is not given
AsyncChatbotInstance(identifier) ==
    [id |-> identifier, persona |-> ConstructedPersona, hash_prefix |-> None,
     messages |-> <<>>]

\* AsyncChatbotInstance.load: raised names the exception that leaves the method ("" when
\* none does); only JSONDecodeError is caught. The three assignments are made in the
\* order persona, hash_prefix, messages, and an exception leaves the earlier ones made.
load_file(inst, file, not_found_ok) ==
    IF file.kind = "missing"
    THEN [raised |-> IF not_found_ok THEN "" ELSE "FileNotFoundError", inst |-> inst]
    ELSE IF file.kind = "not_json"
    THEN [raised |-> "", inst |-> inst]
    ELSE IF file.persona = None
    THEN [raised |-> "TypeError", inst |-> inst]
    ELSE LET made == [i \in 1..Len(file.messages) |-> from_dict(file.messages[i])]
             assigned == [inst EXCEPT !.persona = file.persona, !.hash_prefix = <<"prefix">>]
         IN  IF \A i \in 1..Len(made) : made[i].ok
             THEN [raised |-> "",
                   inst |-> [assigned EXCEPT
                                !.messages = [i \in 1..Len(made) |-> made[i].msg]]]
             ELSE [raised |-> "AssertionError", inst |-> assigned]

\* the call at position c has left the factory: with `result` (0 is None) or with the
\* exception `raised`
leave(f, c, result, raised) ==
    [f EXCEPT !.calls[c].pc = IF raised = "" THEN "returned" ELSE "raised",
              !.calls[c].result = result,
              !.calls[c].raised = raised]

\* CachedAsyncChatbotFactory.remove(identifier): the save file is deleted if it is
\* there, the cache entry is deleted if it is there
removed_from(f, identifier) ==
    [f EXCEPT !.files[identifier] = Missing, !.instances[identifier] = 0]

\* the caller's code after `await self.chatbot_factory.get(...)` gave `result`:
\* on_message goes on to pixi_resp_retry, whose get_conversation_instance is a second
\* get; pixi_resp_retry then calls instance.update_realtime(...), which for None is an
\* AttributeError; reset_command goes on to remove, with no suspension in between
\* (removed_at is the number of calls made so far)
after_get(f, c, result) ==
    IF f.calls[c].kind = "get" THEN leave(f, c, result, "")
    ELSE IF f.calls[c].kind = "reset_command"
    THEN [removed_from(leave(f, c, result, ""), f.calls[c].identifier)
             EXCEPT !.calls[c].removed_at = Len(f.calls)]
    ELSE IF f.calls[c].stage = 1
    THEN [f EXCEPT !.calls[c].stage = 2, !.calls[c].pc = "get"]
    ELSE IF result = 0 THEN leave(f, c, 0, "AttributeError")
    ELSE leave(f, c, result, "")

\* get and get_or_create after `await self.new_instance(identifier)`: load, and
\* cache_instance when load raised nothing
loaded_and_cached(f, c) ==
    LET call == f.calls[c]
        done == load_file(f.objects[call.object], f.files[call.identifier],
                          call.kind = "get_or_create")
        kept == [f EXCEPT !.objects[call.object] = done.inst]
        cached == [kept EXCEPT !.instances[call.identifier] = call.object]
    IN  IF call.kind = "get_or_create"
        THEN IF done.raised = "" THEN leave(cached, c, call.object, "")
             ELSE leave(kept, c, 0, done.raised)
        ELSE IF done.raised = "" THEN after_get(cached, c, call.object)
        ELSE IF done.raised = "FileNotFoundError" THEN after_get(kept, c, 0)
        ELSE leave(kept, c, 0, done.raised)

\* get and get_or_create up to the first suspension: the cached instance is returned;
\* otherwise new_instance constructs one and, when a registered tool or command has a
\* predicate, awaits it
enter(f, c) ==
    LET call == f.calls[c]
        cached_instance == f.instances[call.identifier]
        constructed == [f EXCEPT !.objects = Append(@, AsyncChatbotInstance(call.identifier)),
                                 !.calls[c].object = Len(f.objects) + 1,
                                 !.calls[c].pc = "new_instance"]
    IN  IF cached_instance # 0
        THEN IF call.kind = "get_or_create" THEN leave(f, c, cached_instance, "")
             ELSE after_get(f, c, cached_instance)
        ELSE IF f.predicates THEN constructed
        ELSE loaded_and_cached(constructed, c)

NewCall(kind, identifier, f) ==
    [kind |-> kind, identifier |-> identifier, stage |-> 1, pc |-> "get",
     object |-> 0, result |-> 0, raised |-> "", removed_at |-> 0,
     first |-> f.instances[identifier] = 0 /\ f.files[identifier] = Missing,
     file |-> f.files[identifier]]

\* the factory once a caller has made the call and run it to its first suspension
called(kind, identifier) ==
    LET f == [factory EXCEPT !.calls = Append(@, NewCall(kind, identifier, factory))]
    IN  enter(f, Len(f.calls))

\* CachedAsyncChatbotFactory.get_or_create(identifier), to its first suspension
get_or_create(identifier) ==
    /\ Len(factory.calls) < MaxFactoryCalls
    /\ factory' = called("get_or_create", identifier)
    /\ UNCHANGED outsideFactory

\* CachedAsyncChatbotFactory.get(identifier), to its first suspension
get(identifier) ==
    /\ Len(factory.calls) < MaxFactoryCalls
    /\ factory' = called("get", identifier)
    /\ UNCHANGED outsideFactory

\* PixiClient.on_message for a message of `identifier`, to the first suspension in or
\* after `convo = await self.chatbot_factory.get(convo_id)`
on_message_of(identifier) ==
    /\ Len(factory.calls) < MaxFactoryCalls
    /\ factory' = called("on_message", identifier)
    /\ UNCHANGED outsideFactory

\* pixi_resp_retry of that message: `instance = await
\* self.get_conversation_instance(identifier)`, to its first suspension
get_conversation_instance(c) ==
    /\ factory.calls[c].pc = "get"
    /\ factory' = enter(factory, c)
    /\ UNCHANGED outsideFactory

\* the predicates of new_instance have answered: the call goes on after
\* `await self.new_instance(identifier)`
new_instance_returns(c) ==
    /\ factory.calls[c].pc = "new_instance"
    /\ factory' = loaded_and_cached(factory, c)
    /\ UNCHANGED outsideFactory

\* CachedAsyncChatbotFactory.remove(identifier)
remove(identifier) ==
    /\ factory.instances[identifier] # 0 \/ factory.files[identifier] # Missing
    /\ factory' = removed_from(factory, identifier)
    /\ UNCHANGED outsideFactory

InitFactory ==
    /\ \E files \in [Identifiers -> FileContents], predicates \in BOOLEAN :
          factory = [instances |-> [id \in Identifiers |-> 0], objects |-> <<>>,
                     files |-> files, predicates |-> predicates, calls |-> <<>>]
    /\ instance = NewInstance /\ storage = <<>> /\ loaded = <<>>
    /\ rebuilt = <<>> /\ construction = <<>>
    /\ context = [messages |-> <<>>, system_prompt_size |-> 0, result |-> <<>>,
                  enforce_system_header |-> FALSE, request |-> <<>>,
                  rearrange_predicate |-> "None"]
    /\ lists = << <<>> >> /\ messages_ref = 1
    /\ tasks = <<>> /\ channel_active_tasks = <<>>
    /\ handlers = <<>> /\ effects = <<>>
    /\ given = <<>>
    /\ InterpIdle /\ StreamIdle /\ ToolsIdle

NextFactory ==
    \/ \E identifier \in Identifiers : get_or_create(identifier)
    \/ \E identifier \in Identifiers : get(identifier)
    \/ \E identifier \in Identifiers : on_message_of(identifier)
    \/ \E c \in 1..Len(factory.calls) : get_conversation_instance(c)
    \/ \E c \in 1..Len(factory.calls) : new_instance_returns(c)
    \/ \E identifier \in Identifiers : remove(identifier)

SpecFactory == InitFactory /\ [][NextFactory]_vars

\* call c returns in this step
ReturnsNow(c) ==
    /\ factory'.calls[c].pc = "returned"
    /\ c <= Len(factory.calls) => factory.calls[c].pc # "returned"

\* a get_or_create that returns while the identity is cached returns the cached
\* instance, and the instance it returns is the cached one from then on
SameInstanceReturned ==
    \A c \in 1..Len(factory'.calls) :
        (factory'.calls[c].kind = "get_or_create" /\ ReturnsNow(c)) =>
            LET identifier == factory'.calls[c].identifier
            IN  /\ factory.instances[identifier] # 0 =>
                      factory'.calls[c].result = factory.instances[identifier]
                /\ factory'.instances[identifier] = factory'.calls[c].result

\* no step puts a second instance in the place of a cached one
NeverReplaced ==
    \A identifier \in Identifiers :
        (factory.instances[identifier] # 0 /\ factory'.instances[identifier] # 0) =>
            factory'.instances[identifier] = factory.instances[identifier]

\* C18: under every interleaving of calls, a get_or_create for a cached identity returns
\* the cached instance (so nothing is constructed or loaded for it a second time), and
\* a cached instance is never replaced by another one.
C18_CreateOrLoadOnce == [][SameInstanceReturned /\ NeverReplaced]_vars

\* C19: when the first message of an identity with no cached instance and no save file
\* has been handled, an instance of that identity has been created and cached and the
\* handler went on with it; no exception ended the handler.
C19_FirstMessageCreatesInstance ==
    \A c \in 1..Len(factory.calls) :
        LET call == factory.calls[c]
        IN  (call.kind = "on_message" /\ call.first /\ call.pc \in {"returned", "raised"}) =>
                /\ call.pc = "returned"
                /\ call.result # 0
                /\ factory.objects[call.result].id = call.identifier

\* C20: a get_or_create that constructs an instance whose save file is missing or
\* corrupt returns that instance, with an empty transcript and the persona it was
\* constructed with; nothing of the file is left in it and no exception reaches the
\* caller.
C20_FailedLoadStartsFresh ==
    \A c \in 1..Len(factory.calls) :
        LET call == factory.calls[c]
        IN  (/\ call.kind = "get_or_create"
             /\ call.object # 0
             /\ call.pc \in {"returned", "raised"}
             /\ call.file \in {Missing, Truncated, NoPersona, SavedRefused}) =>
                /\ call.pc = "returned"
                /\ call.result = call.object
                /\ factory.objects[call.object] = AsyncChatbotInstance(call.identifier)

(***************************************************************************)
(* One instance, several channels                                          *)
(***************************************************************************)

\* task t is a generation under way that has not been cancelled: it appends to the
\* transcript at its next tool call or at the end of its response
Writing(t) == tasks[t].state = "running" /\ ~tasks[t].must_cancel

AtMostOneWriter == Cardinality({ t \in 1..Len(tasks) : Writing(t) }) <= 1

\* no message appended by one task stands between two messages appended by another
NotInterleaved ==
    \A t \in 1..Len(tasks), u \in 1..Len(tasks) :
        t # u =>
            \A i \in 1..Len(transcript), j \in 1..Len(transcript), k \in 1..Len(transcript) :
                (i < j /\ j < k) =>
                    ~ /\ AppendedByAttempt(t, transcript[i])
                      /\ AppendedByAttempt(u, transcript[j])
                      /\ AppendedByAttempt(t, transcript[k])

\* C21: at any instant at most one generation task is appending to the transcript of
\* the instance, and the messages appended by two generation attempts are never
\* interleaved in it, whichever channels the inbound messages came from.
C21_OneWriterPerInstance == AtMostOneWriter /\ NotInterleaved

\* C22: AsyncChatbotInstance.from_dict(instance.to_dict()) succeeds and gives an
\* instance with the identity, the prefix and the persona of the original and with the
\* same transcript: as many messages, in the same order, each equal in every field.
C22_InstanceDictRoundTrip ==
    rebuilt # <<>> =>
        LET got == rebuilt[1].made.inst
            was == rebuilt[1].of
        IN  /\ rebuilt[1].made.ok
            /\ got.id = uuid /\ got.prefix = hash_prefix /\ got.persona = persona
            /\ Len(got.messages) = Len(was)
            /\ \A i \in 1..Len(was) : got.messages[i] = was[i]

(***************************************************************************)
(* ChatMessage.__init__ over every combination of its arguments            *)
(***************************************************************************)

\* the messages added to the transcript
MaxConstructed == 2

\* role, content, metadata, message_time, images, audio, tool_calls, tool_call_id
ConstructorArgs ==
    { <<role, content, metadata, 0, images, audio, tool_calls, tool_call_id>> :
        role \in {"system", "assistant", "user", "tool"},
        content \in {None, <<>>, <<"h", "i">>},
        metadata \in {None, AliceMetadata},
        images \in {<<>>, <<"img1">>},
        audio \in {<<>>, <<"aud1">>},
        tool_calls \in {<<>>, <<FnCall>>},
        tool_call_id \in {None, <<"call_0">>} }

\* instance.add_message(ChatMessage(...)) with the arguments a: an AssertionError of the
\* constructor leaves the transcript as it was
construct(a) ==
    /\ Len(instance.messages) < MaxConstructed
    /\ LET made == ChatMessage(a[1], a[2], a[3], a[4], a[5], a[6], a[7], a[8])
       IN  /\ construction' = << [args |-> a, ok |-> made.ok] >>
           /\ instance' = IF made.ok
                          THEN [instance EXCEPT !.messages = Append(@, made.msg)]
                          ELSE instance
    /\ UNCHANGED <<storage, loaded, rebuilt, outsidePersist>>

InitConstruct == InitPersist

NextConstruct == \E a \in ConstructorArgs : construct(a)

SpecConstruct == InitConstruct /\ [][NextConstruct]_vars

\* the constraints on a message of each role
Present(content) == content # None /\ content # <<>>

ContentRequired(m) == m.role \in {"system", "user", "tool"} => Present(m.content)

ContentOrToolCalls(m) == m.role = "assistant" => ~(Present(m.content) /\ m.tool_calls # <<>>)

MetadataOnlyOnUser(m) == m.role # "user" => ~Present(m.metadata)

ImagesOnlyOnUser(m) == m.role # "user" => m.images = <<>>

AudioOnlyOnUser(m) == m.role # "user" => m.audio = <<>>

ToolCallsOnlyOnAssistant(m) == m.role # "assistant" => m.tool_calls = <<>>

ToolCallIdOnTool(m) == m.role = "tool" <=> Present(m.tool_call_id)

RoleConstraints(m) ==
    /\ ContentRequired(m)
    /\ ContentOrToolCalls(m)
    /\ MetadataOnlyOnUser(m)
    /\ ImagesOnlyOnUser(m)
    /\ AudioOnlyOnUser(m)
    /\ ToolCallsOnlyOnAssistant(m)
    /\ ToolCallIdOnTool(m)

\* the message the arguments a describe
Described(a) ==
    [role |-> a[1], content |-> a[2], metadata |-> a[3], images |-> a[5], audio |-> a[6],
     tool_calls |-> a[7], tool_call_id |-> a[8]]

\* C23: a ChatMessage construction whose arguments break a constraint of the role fails
\* and adds no message, so every message of the transcript satisfies the constraints:
\* content on system, user and tool messages; not content and tool_calls together on an
\* assistant message; metadata, images and audio on user messages only; tool_calls on
\* assistant messages only; tool_call_id on tool messages and only there.
C23_RoleConstraintsEnforced ==
    /\ construction # <<>> =>
          (~RoleConstraints(Described(construction[1].args)) => ~construction[1].ok)
    /\ \A i \in 1..Len(instance.messages) : RoleConstraints(instance.messages[i])

(***************************************************************************)
(* What pixi_resp_retry returns, and when the instance is saved            *)
(***************************************************************************)

\* the value pixi_resp_retry has returned for the h-th inbound message ("" while it has
\* not returned): `return True` after instance.save(); the end of the function body
\* after the loop, which returns None
pixi_resp_retry_returned(h) ==
    CASE handlers[h].pc = "returned" -> "True"
      [] handlers[h].pc = "gave_up" -> "None"
      [] OTHER -> ""

\* handler h leaves pixi_resp_retry through `return True` in this step
ReturnsTrue(h) == handlers[h].pc # "returned" /\ handlers'[h].pc = "returned"

\* `return True` comes with a save of the transcript as it is
SavedOnReturnTrue ==
    \A h \in 1..Len(handlers) :
        ReturnsTrue(h) =>
            storage' = << [data |-> instance_to_dict([messages |-> transcript]),
                           of |-> transcript] >>

\* the file is written only by a handler whose attempt ran to its end uncancelled
SavedOnlyOnSuccess ==
    storage' # storage =>
        \E h \in 1..Len(handlers) :
            /\ ReturnsTrue(h)
            /\ tasks[handlers[h].task].state = "done"
            /\ ~tasks[handlers[h].task].cancelling

\* a handler whose attempts have all failed has returned False
ReturnsFalseAfterFailures ==
    \A h \in 1..Len(handlers) :
        handlers[h].pc = "gave_up" => pixi_resp_retry_returned(h) = "False"

\* C24: pixi_resp_retry returns True, the instance saved, as soon as an attempt has
\* responded, and False when all num_retry attempts have failed; the instance is saved
\* when an inbound message has been handled successfully and at no other time.
C24_ReturnValueAndSave ==
    /\ [][SavedOnReturnTrue /\ SavedOnlyOnSuccess]_vars
    /\ []ReturnsFalseAfterFailures

(***************************************************************************)
(* Tool-call rounds of one stream_request                                  *)
(***************************************************************************)

\* the tool messages of msgs that answer the call with this id
AnswersTo(msgs, id) == { i \in 1..Len(msgs) : msgs[i].role = "tool" /\ msgs[i].tool_call_id = id }

ToolMessages(msgs) == { i \in 1..Len(msgs) : msgs[i].role = "tool" }

\* this step ends a response whose finish reason is "tool_calls": the follow-up request
\* is the next thing stream_request does
IssuesFollowUp == req.pc = "streaming" /\ req'.pc = "next_round"

\* when the follow-up request is issued nothing is left in the executor's queue, and the
\* transcript holds one tool message for every call of the round: those handed to the
\* executor while the response was streaming and those finalized at its end
RoundResolvedBeforeFollowUp ==
    IssuesFollowUp =>
        /\ tool_call_queue = <<>> /\ tool_call_queue' = <<>>
        /\ \A k \in 1..Len(queued_calls) : AnswersTo(messages', queued_calls[k].call.id) # {}
        /\ \A k \in 1..Len(partial_function_calls) :
              AnswersTo(messages', partial_function_calls[k].id) # {}
        /\ Cardinality(ToolMessages(messages')) =
              Len(queued_calls) + Len(partial_function_calls)

RoundIndices == { given[i].index : i \in { k \in 1..Len(given) : given[k].kind = "tool" } }

\* the messages of msgs that carry tool calls
CallsMessages(msgs) ==
    { i \in 1..Len(msgs) : msgs[i].role = "assistant" /\ msgs[i].tool_calls # <<>> }

\* the round has left exactly one assistant message in the transcript; it carries one
\* call per call of the response, in index order, and is followed by one tool message
\* per call, in the same order
OneCallsMessage(msgs) ==
    /\ Cardinality(CallsMessages(msgs)) = 1
    /\ LET at == CHOOSE i \in CallsMessages(msgs) : TRUE
           tool_calls == msgs[at].tool_calls
       IN  /\ Len(tool_calls) = Cardinality(RoundIndices)
           /\ \A k \in 1..Len(tool_calls) : tool_calls[k].id = CallIds[k - 1]
           /\ Len(msgs) >= at + Len(tool_calls)
           /\ \A k \in 1..Len(tool_calls) :
                 /\ msgs[at + k].role = "tool"
                 /\ msgs[at + k].tool_call_id = tool_calls[k].id
           /\ Cardinality(ToolMessages(msgs)) = Len(tool_calls)

\* C26: when a tool-call round is over, the transcript has received exactly one
\* assistant message whose tool_calls hold every call of the round, followed by one
\* tool message per call, however many calls the round has.
C26_OneCallsMessagePerRound == req.pc = "next_round" => OneCallsMessage(messages)

\* every tool message of msgs has before it, with nothing but tool messages in between,
\* an assistant message whose tool_calls hold a call with the tool message's id
CallsBeforeResults(msgs) ==
    \A i \in 1..Len(msgs) :
        msgs[i].role = "tool" =>
            \E j \in 1..(i - 1) :
                /\ msgs[j].role = "assistant"
                /\ \E k \in 1..Len(msgs[j].tool_calls) :
                      msgs[j].tool_calls[k].id = msgs[i].tool_call_id
                /\ \A l \in (j + 1)..(i - 1) : msgs[l].role = "tool"

\* C27: in every transcript a stream_request can produce, each tool message is preceded,
\* with only tool messages in between, by an assistant message whose tool_calls hold a
\* call with the id the tool message answers.
C27_CallsMessageBeforeResults == CallsBeforeResults(messages)

\* a transcript with the results of three calls, two run by the executor and one at the
\* end of the stream, each right after the assistant message that carries its call
C27_Witness ==
    /\ req.pc = "next_round"
    /\ Cardinality(CallsMessages(messages)) = 3
    /\ \A j \in CallsMessages(messages) :
          /\ Len(messages) > j
          /\ messages[j + 1].role = "tool"
          /\ messages[j + 1].tool_call_id = messages[j].tool_calls[1].id


RECURSIVE ContentOf(_)
\* the content deltas of one response, concatenated
ContentOf(response) ==
    IF response = <<>> THEN <<>>
    ELSE (IF Head(response).kind = "content" THEN Head(response).content ELSE <<>>)
         \o ContentOf(Tail(response))

RECURSIVE ContentOfRounds(_)
\* the content of the rounds, concatenated in round order
ContentOfRounds(responses) ==
    IF responses = <<>> THEN <<>>
    ELSE ContentOf(Head(responses)) \o ContentOfRounds(Tail(responses))

\* the stream of stream_request is over: it returned or it raised
StreamOver == req.pc \in {"done", "raised"}

\* C28: when the upstream's responses 1..k finish with "tool_calls" and response k+1
\* with another reason, the stream of stream_request ends after round k+1 without an
\* exception, exactly k+1 completion requests were issued, and the characters it
\* yielded are the rounds' content concatenated in round order.
C28_OneRequestPerRound ==
    StreamOver =>
        /\ req.pc = "done"
        /\ req.requests = Len(given)
        /\ req.round = Len(given)
        /\ req.yielded = ContentOfRounds(given)


\* the text has the marker `tag` at position i
StartsAt(text, i, tag) ==
    i + Len(tag) - 1 <= Len(text) /\ SubSeq(text, i, i + Len(tag) - 1) = tag

RECURSIVE Located(_, _, _)
\* where each character of the text from position i on is located, read off the text:
\* in a marker that opens or closes a segment, inside a segment (from an open marker
\* to the first close marker after it, or to the end), or outside
Located(text, i, thinking) ==
    IF i > Len(text) THEN <<>>
    ELSE IF ~thinking /\ StartsAt(text, i, start_think_tag)
    THEN [k \in 1..Len(start_think_tag) |-> "marker"]
         \o Located(text, i + Len(start_think_tag), TRUE)
    ELSE IF thinking /\ StartsAt(text, i, end_think_tag)
    THEN [k \in 1..Len(end_think_tag) |-> "marker"]
         \o Located(text, i + Len(end_think_tag), FALSE)
    ELSE <<IF thinking THEN "inside" ELSE "outside">> \o Located(text, i + 1, thinking)

\* C29: whatever the text and its cut into content deltas, every character
\* stream_completion yields stands outside the think segments of the text: not between
\* an open marker and its close marker, not between an open marker and the end of the
\* stream when no close marker follows, and not in a marker that opens or closes a
\* segment.
C29_ThinkSegmentNeverYielded ==
    LET text == Concat(given)
        located == Located(text, 1, FALSE)
    IN  \A k \in 1..Len(think.yielded_at) :
            /\ located[think.yielded_at[k]] = "outside"
            /\ think.yielded[k] = text[think.yielded_at[k]]

\* a segment longer than the buffer, then "a", one delta per character, streamed to
\* the end: only the "a" behind the close marker was yielded
C29_Witness ==
    LET text == start_think_tag \o <<"b","c","d","e","f","g","h","i","j">>
                \o end_think_tag \o <<"a">>
    IN  /\ given = Chars(text)
        /\ think.ended
        /\ think.yielded = <<"a">>
        /\ think.yielded_at = <<Len(text)>>


\* the positions of the request that hold a system message
SystemAt(request) == { i \in 1..Len(request) : request[i].role = "system" }

\* the position of the last user message of the request, 0 when it has none
LastUserAt(request) ==
    LET users == { i \in 1..Len(request) : request[i].role = "user" }
    IN  IF users = {} THEN 0 ELSE CHOOSE i \in users : \A j \in users : j <= i

\* the request without its position i
Except(request, i) == SubSeq(request, 1, i - 1) \o SubSeq(request, i + 1, Len(request))

\* the request's messages are the last messages of the transcript, in their order
TranscriptOrderKept(request, msgs) ==
    \E k \in 1..Len(msgs) :
        request = [i \in 1..(Len(msgs) - k + 1) |-> to_openai_dict(msgs[k + i - 1])]

\* a request was built from a non-empty transcript with a system prompt set
RequestBuilt ==
    context.result # <<>> /\ context.messages # <<>> /\ context.system_prompt_size # 0

\* C30: a request built from a non-empty transcript with a system prompt set holds
\* exactly one system message; it stands first when enforce_system_header is set,
\* otherwise directly in front of the last user message of the request (first when the
\* request has no user message); the other messages are transcript messages in the
\* transcript's order.
C30_OneSystemMessagePlaced ==
    RequestBuilt =>
        /\ Cardinality(SystemAt(context.request)) = 1
        /\ LET at == CHOOSE i \in SystemAt(context.request) : TRUE
           IN  /\ context.enforce_system_header => at = 1
               /\ ~context.enforce_system_header =>
                     IF LastUserAt(context.request) = 0 THEN at = 1
                     ELSE at + 1 = LastUserAt(context.request)
               /\ TranscriptOrderKept(Except(context.request, at), context.messages)

\* without the flag, a request whose last user message is not its first message: the
\* system message stands in the middle of the request
C30_Witness ==
    /\ RequestBuilt
    /\ ~context.enforce_system_header
    /\ \E i \in 2..(Len(context.request) - 1) :
          /\ context.request[i].role = "system"
          /\ context.request[i + 1].role = "user"
          /\ \E j \in (i + 2)..Len(context.request) : context.request[j].role = "assistant"


\* the budget of a request, in characters
Budget == MAX_CONTEXT_LENGTH * 4

\* the estimated size of the messages with the system prompt
EstimatedSize(msgs, system_prompt_size) ==
    request_size_before(msgs, system_prompt_size, Len(msgs) + 1)

\* kept is what is left of msgs after some of its oldest messages were dropped
SuffixOf(kept, msgs) ==
    /\ Len(kept) <= Len(msgs)
    /\ kept = SubSeq(msgs, Len(msgs) - Len(kept) + 1, Len(msgs))

\* the budget was enforced on a transcript whose estimated size is over it
OverBudgetEnforced ==
    /\ context.result # <<>>
    /\ EstimatedSize(context.messages, context.system_prompt_size) > Budget

\* C31: when the estimated size of the transcript with the system prompt is over the
\* budget of 4 * MAX_CONTEXT_LENGTH characters, the messages kept are a suffix of the
\* transcript that ends with its newest message, and when more than one message is
\* kept their estimated size with the system prompt is within the budget.
C31_KeptSuffixWithinBudget ==
    OverBudgetEnforced =>
        LET kept == context.result[1]
        IN  /\ kept # <<>>
            /\ SuffixOf(kept, context.messages)
            /\ Len(kept) > 1 => EstimatedSize(kept, context.system_prompt_size) <= Budget


\* the request without its system messages
WithoutSystem(request) == SelectAt(request, (1..Len(request)) \ SystemAt(request), 1)

\* every step leaves the stored transcript as it is
TranscriptUntouched == context'.messages = context.messages

\* the request lists the kept messages with the last DefaultN matching ones at the end
RequestRearranged ==
    (context.result # <<>> /\ context.rearrange_predicate # "None") =>
        LET expected == get_rearranged_messages(context.result[1], DefaultN)
        IN  WithoutSystem(context.request) = [i \in 1..Len(expected) |-> to_openai_dict(expected[i])]

\* C32: with a rearrange predicate set, the request lists the messages with the last
\* five messages that match the predicate moved to the end, matching and other
\* messages keeping their relative order, none added, lost or duplicated, and the
\* stored transcript keeps its order.
C32_RequestRearranged ==
    /\ []RequestRearranged
    /\ [][TranscriptUntouched]_vars


\* the position of the first ":" of the text, 0 when it has none
FirstColon(text) ==
    LET at == { i \in 1..Len(text) : text[i] = ":" }
    IN  IF at = {} THEN 0 ELSE CHOOSE i \in at : \A j \in at : i <= j

\* the name and the data the claim gives a completed command string "[...]"
NameOf(command_str) ==
    LET inner == SliceInner(command_str)
        colon == FirstColon(inner)
    IN  Strip(IF colon = 0 THEN inner ELSE SubSeq(inner, 1, colon - 1))
DataOf(command_str) ==
    LET inner == SliceInner(command_str)
        colon == FirstColon(inner)
    IN  IF colon = 0 THEN None ELSE Strip(SubSeq(inner, colon + 1, Len(inner)))

\* the pass has just completed a command string: its handler runs or it raised
CommandCompleted == interp.running \/ interp.raised # "no"

\* C33: a completed command string is split at its first ":" into a name and a data,
\* both trimmed; without ":" the whole content, trimmed, is the name and there is no
\* data; the name is looked up ignoring case: a registered command is called with
\* that data, any other name raises NotImplementedError.
C33_NameAndDataTrimmed ==
    CommandCompleted =>
        IF Lower(NameOf(interp.command_str)) \in commands
        THEN /\ interp.running
             /\ interp.calls[Len(interp.calls)] =
                   [name |-> Lower(NameOf(interp.command_str)),
                    data |-> DataOf(interp.command_str)]
        ELSE interp.raised = "NotImplementedError"


RECURSIVE ArgumentsOf(_, _)
\* the argument pieces of the fragments of call `index`, joined
ArgumentsOf(response, index) ==
    IF response = <<>> THEN <<>>
    ELSE (IF Head(response).kind = "tool" /\ Head(response).index = index
             /\ Head(response).arguments # None
          THEN Head(response).arguments ELSE <<>>)
         \o ArgumentsOf(Tail(response), index)

\* the call the model requested under `index`: name and id of its first fragment, the
\* arguments parsed from all of its fragments
RequestedCall(index) ==
    to_function_call([name |-> CallNames[index], index |-> index, id |-> CallIds[index],
                      arguments |-> ArgumentsOf(given, index)]).call

RECURSIVE ExecutedCalls(_)
\* the calls get_tool_results was run on, as the assistant messages in front of their
\* results list them
ExecutedCalls(msgs) ==
    IF msgs = <<>> THEN <<>>
    ELSE (IF Head(msgs).role = "assistant" THEN Head(msgs).tool_calls ELSE <<>>)
         \o ExecutedCalls(Tail(msgs))

\* the response is over: stream_request goes on to the next round, returns or raised
ResponseOver == req.pc \in {"next_round", "done", "raised"}

\* C34: when a streamed response is over, every tool call it requested has been
\* executed exactly once, with the name and id of its first fragment and the
\* arguments parsed from all of its fragments, and the transcript holds exactly one
\* tool message with its id; nothing else was executed and nothing raised.
C34_EveryCallExecutedOnce ==
    ResponseOver =>
        LET executed == ExecutedCalls(messages)
        IN  /\ req.pc # "raised"
            /\ Len(executed) = Cardinality(RoundIndices)
            /\ \A index \in RoundIndices :
                  /\ Cardinality({ k \in 1..Len(executed) : executed[k].index = index }) = 1
                  /\ \E k \in 1..Len(executed) : executed[k] = RequestedCall(index)
                  /\ Cardinality(AnswersTo(messages, CallIds[index])) = 1
            /\ Cardinality(ToolMessages(messages)) = Cardinality(RoundIndices)


\* handler h is inside concurrent_channel_stream_call
InCall(h) ==
    h <= Len(handlers) /\ handlers[h].pc \in {"cancel_loop", "await_cancel", "spinning"}

\* handler h has entered concurrent_channel_stream_call and left it again
LeftCall(h) ==
    h <= Len(handlers) /\ handlers[h].pc \notin {"idle", "cancel_loop", "await_cancel", "spinning"}

\* C35: every call of concurrent_channel_stream_call eventually returns: a handler
\* that is in the cancel loop eventually leaves it, whatever the interleaving of the
\* channel's tasks, their done-callbacks and the other handlers.
C35_CancelLoopTerminates ==
    \A h \in 1..MaxArrivals : InCall(h) ~> LeftCall(h)


\* the pass over the text that follows the first character of the interpreted text,
\* taken on its own
RestAlone == process_all(NewInterp, Chars(Tail(given[1])))

\* the interpreted text starts with a "]", and the pass over it is over
StrayCloseFirst ==
    /\ given[1] # <<>> /\ given[1][1] = "]"
    /\ ~interp.running
    /\ stream = <<>> \/ interp.raised # "no"

\* C36: a "]" met at depth 0 is yielded and leaves the treatment of the rest of the
\* stream as it is: what the pass yields after it, the handlers it calls and their
\* data, and the exception it ends with, are those of a pass over the rest alone.
C36_StrayCloseBracketHarmless ==
    StrayCloseFirst =>
        /\ interp.yielded = <<"]">> \o RestAlone.yielded
        /\ interp.calls = RestAlone.calls
        /\ interp.raised = RestAlone.raised


\* message m is in the list msgs
HasMessage(msgs, m) == \E i \in 1..Len(msgs) : msgs[i] = m

\* handler h rolls its failed attempt back in this step
RollsBack(h) ==
    h <= Len(handlers) /\ handlers[h].pc = "failed" /\ handlers'[h].pc # "failed"

\* a rollback takes out of the transcript only what the rolled-back attempt added
RollbackKeepsOthers ==
    \A h \in 1..MaxArrivals :
        RollsBack(h) =>
            \A i \in 1..Len(transcript) :
                ~AddedByAttempt(handlers[h].task, transcript[i]) =>
                    HasMessage(lists'[messages_ref'], transcript[i])

\* the attempt behind task t failed and its handler has rolled it back
RolledBackAttempt(t) ==
    /\ tasks[t].state = "failed"
    /\ \/ handlers[tasks[t].owner].task # t
       \/ handlers[tasks[t].owner].pc = "gave_up"

\* the tool call of a rolled-back attempt and its result stay out of the transcript
RolledBackStaysOut ==
    \A t \in 1..Len(tasks) :
        RolledBackAttempt(t) =>
            \A i \in 1..Len(transcript) :
                /\ ~(transcript[i].role = "assistant" /\ transcript[i].tool_calls = <<TaskCall(t)>>)
                /\ ~(transcript[i].role = "tool" /\ transcript[i].tool_call_id = TaskCall(t).id)

\* C37: rolling a failed attempt back removes only the messages that attempt added:
\* what another generation for the same instance appended since the checkpoint is
\* still in the transcript after the rollback, and the messages of a rolled-back
\* attempt do not come back when a tool result of another generation completes later.
C37_RollbackRemovesOnlyOwnMessages ==
    /\ [][RollbackKeepsOthers]_vars
    /\ []RolledBackStaysOut

(***************************************************************************)
(* A reset while a generation is under way: PixiClient.reset_command,      *)
(* pixi_resp_retry up to instance.save()                                   *)
(***************************************************************************)

\* PixiClient.reset_command for `identifier` (the sender is an admin or in a DM), to the
\* first suspension in `await self.get_conversation_instance(identifier)`, or to its end
reset_command(identifier) ==
    /\ Len(factory.calls) < MaxFactoryCalls
    /\ factory' = called("reset_command", identifier)
    /\ UNCHANGED outsideFactory

\* what the generation of a message adds to the transcript: the message and the reply
InboundMessage == ChatMessage("user", <<"y", "o">>, AliceMetadata, 4, <<>>, <<>>, <<>>, None).msg
ReplyMessage   == ChatMessage("assistant", <<"o", "k">>, None, 5, <<>>, <<>>, <<>>, None).msg

\* AsyncChatbotInstance.save: the file holds to_dict() of the instance
save_file(inst) ==
    [kind |-> "json", persona |-> inst.persona,
     messages |-> instance_to_dict(inst).messages]

\* pixi_resp_retry from `instance.update_realtime(...)` on, when an attempt succeeds:
\* the instance the handler holds gets the message and the reply, and instance.save()
\* writes it to the save file of its identity
instance_save(c) ==
    LET call == factory.calls[c]
        inst == [factory.objects[call.result] EXCEPT
                    !.messages = @ \o <<InboundMessage, ReplyMessage>>]
    IN  /\ call.kind = "on_message" /\ call.pc = "returned" /\ call.result # 0
        /\ factory' = [factory EXCEPT !.objects[call.result] = inst,
                                      !.files[call.identifier] = save_file(inst),
                                      !.calls[c].pc = "saved"]
        /\ UNCHANGED outsideFactory

\* pixi_resp_retry when every attempt fails: each is rolled back, nothing is saved
retries_fail(c) ==
    LET call == factory.calls[c]
    IN  /\ call.kind = "on_message" /\ call.pc = "returned" /\ call.result # 0
        /\ factory' = [factory EXCEPT !.calls[c].pc = "gave_up"]
        /\ UNCHANGED outsideFactory

NextReset ==
    \/ \E identifier \in Identifiers : get_or_create(identifier)
    \/ \E identifier \in Identifiers : on_message_of(identifier)
    \/ \E c \in 1..Len(factory.calls) : get_conversation_instance(c)
    \/ \E c \in 1..Len(factory.calls) : new_instance_returns(c)
    \/ \E identifier \in Identifiers : reset_command(identifier)
    \/ \E c \in 1..Len(factory.calls) : instance_save(c)
    \/ \E c \in 1..Len(factory.calls) : retries_fail(c)

SpecReset == InitFactory /\ [][NextReset]_vars

\* call c is a reset that has removed its identity
ResetDone(c) ==
    /\ factory.calls[c].kind = "reset_command"
    /\ factory.calls[c].pc = "returned"

\* call d is the first get_or_create of the identity made after the reset c removed it
NextAfterReset(c, d) ==
    /\ ResetDone(c)
    /\ d \in 1..Len(factory'.calls)
    /\ d > factory.calls[c].removed_at
    /\ factory'.calls[d].kind = "get_or_create"
    /\ factory'.calls[d].identifier = factory.calls[c].identifier
    /\ \A e \in (factory.calls[c].removed_at + 1)..(d - 1) :
          ~ /\ factory.calls[e].kind = "get_or_create"
            /\ factory.calls[e].identifier = factory.calls[c].identifier

ReturnsNewAndEmpty ==
    \A c \in 1..Len(factory.calls), d \in 1..MaxFactoryCalls :
        (NextAfterReset(c, d) /\ ReturnsNow(d)) =>
            LET result == factory'.calls[d].result
            IN  /\ result # 0
                /\ result # factory.calls[c].result
                /\ factory'.objects[result].messages = <<>>

\* C38: the first get_or_create of an identity made after a reset removed it returns
\* an instance other than the removed one, with an empty transcript, however the reset
\* is interleaved with the generations under way for the identity and their saves.
C38_ResetStartsFresh == [][ReturnsNewAndEmpty]_vars

(***************************************************************************)
(* The inbound message in the transcript of a successful handling          *)
(***************************************************************************)

Occurrences(msgs, m) == Cardinality({ i \in 1..Len(msgs) : msgs[i] = m })

\* the h-th inbound message stands once in msgs, before whatever the attempt of handler
\* h appended in answer to it
OnceBeforeAnswer(h, msgs) ==
    /\ Occurrences(msgs, UserMessage(h)) = 1
    /\ \A i \in 1..Len(msgs), j \in 1..Len(msgs) :
          (msgs[i] = UserMessage(h) /\ AppendedByAttempt(handlers[h].task, msgs[j])) =>
              i < j

HandledOnceBeforeAnswer ==
    \A h \in 1..Len(handlers) :
        ReturnsTrue(h) => OnceBeforeAnswer(h, lists'[messages_ref'])

\* C39: when pixi_resp_retry returns True for an inbound message, after any number of
\* failed and rolled-back attempts, the transcript holds that user message exactly
\* once, and before the tool-call, tool-result and response messages of the attempt
\* that answered it.
C39_UserMessageOnceBeforeAnswer == [][HandledOnceBeforeAnswer]_vars

(***************************************************************************)
(* The failure notice of one inbound message                               *)
(***************************************************************************)

\* how many times the notice has been sent in reply to the h-th inbound message
NoticesSent(h) ==
    Cardinality({ i \in 1..Len(effects) :
                    /\ effects[i].command = UNKNOWN_ERROR
                    /\ tasks[effects[i].task].owner = h })

\* an attempt for the h-th inbound message has succeeded
SomeAttemptSucceeded(h) ==
    \/ handlers[h].pc = "returned"
    \/ \E t \in 1..Len(tasks) : tasks[t].owner = h /\ tasks[t].state = "done"

\* C40: for one inbound message the failure notice is sent at most once, and it is
\* not sent at all when some attempt for that message succeeds.
C40_NoticeAtMostOnce ==
    \A h \in 1..Len(handlers) :
        /\ NoticesSent(h) <= 1
        /\ SomeAttemptSucceeded(h) => NoticesSent(h) = 0

\* the except clause has run for failed attempts of a message, and a later attempt for
\* that message has succeeded
C40_Witness ==
    \E h \in 1..Len(handlers) :
        /\ handlers[h].pc = "returned"
        /\ handlers[h].attempt > 0
        /\ \E t \in 1..Len(tasks) : tasks[t].owner = h /\ tasks[t].state = "failed"
        /\ NoticesSent(h) = 0

====
